---- MODULE Spec2Model ----
(***************************************************************************)
(* Model of the native-interop layer of opentui (packages/core/src):       *)
(*   deno-ffi-structs.ts  defineEnum, defineStruct, pack, packList, unpack, *)
(*                        unpackList, getPointerSize                       *)
(*   ffi.ts               normalizeSymbolsForRuntime, dlopen, ptr,          *)
(*                        toArrayBuffer, wrapDenoSymbols, pointerToBigInt,  *)
(*                        JSCallback                                       *)
(*   runtime.ts           detectFfiRuntime, getRuntimePlatformArch,         *)
(*                        stringWidth                                       *)
(* and of the test shim that runs suites and hooks on Deno.test.           *)
(* Each area has its own specification over its own group of variables;    *)
(* the other groups stay at their idle values.                             *)
(***************************************************************************)
EXTENDS Integers, Sequences, FiniteSets, TLC

VARIABLES
  pointerSize,   \* deno-ffi-structs.ts: const pointerSize = getPointerSize()
  fields,        \* the FieldDef[] handed to defineStruct
  options,       \* the StructDefOptions handed to defineStruct
  layout,        \* LayoutEntry[] built by defineStruct
  size,          \* struct size computed by defineStruct
  input,         \* the value handed to pack, the list handed to packList
  buffer,        \* the ArrayBuffer pack or packList returned (sequence of bytes)
  heap,          \* its _refs: the retained buffers, each with its address
  out,           \* the record unpack returned
  spc            \* position of the struct scenario

structVars == <<pointerSize, fields, options, layout, size, input, buffer, heap, out, spc>>

VARIABLES
  enumMapping,   \* the mapping handed to defineEnum
  enumCall       \* the last EnumDef.to / EnumDef.from call and its outcome

enumVars == <<enumMapping, enumCall>>

VARIABLES
  runtime,               \* ffi.ts detectRuntime(): "bun" or "deno"
  hostHasOffset,         \* whether Deno.UnsafePointer.offset exists
  logicalSymbols,        \* a symbol table, by name: types, return type, nonblocking
  normalized,            \* normalizeSymbolsForRuntime of its legacy and canonical form
  symbols,               \* the CompatSymbolDefinitions handed to dlopen
  lib,                   \* the library dlopen loaded: "none", "open", "failed", "closed"
  hostSymbols,           \* the table dlopen handed to the host loader
  hostLibrary,           \* the file at the path: whether it exists, the names it exports
  libSymbols,            \* the symbols of the object dlopen returned, by name
  symbolCall,            \* the last call of a symbol dlopen returned
  denoArrayBufferViews,  \* ffi.ts: WeakMap<ArrayBuffer, Uint8Array>
  viewsCreated,          \* per ArrayBuffer, the views toDenoBufferView created
  ptrCall,               \* the last ptr() call and its outcome
  bufferCall             \* the last toArrayBuffer() call and its outcome

ffiVars == <<runtime, hostHasOffset, logicalSymbols, normalized, symbols, lib, hostSymbols,
             hostLibrary, libSymbols, symbolCall, denoArrayBufferViews, viewsCreated, ptrCall, bufferCall>>

VARIABLES
  host,          \* runtime.ts: what globalThis holds (Bun, Deno, process)
  call           \* the last call of a function of runtime.ts or of
                 \* pointerToBigInt, and its outcome

VARIABLES
  bunFFI,        \* ffi.ts getBunFFI(): which of callback and closeCallback Bun.FFI
                 \* has, and whether the handles of Bun.FFI.callback have close
  trampolines,   \* the callback handles the host created, in order
  jsCallbacks    \* the JSCallback objects constructed, in order

cbVars == <<bunFFI, trampolines, jsCallbacks>>

VARIABLES
  suites,        \* test shim: the Suite objects, by name
  throwingHook,  \* the hook that throws when it runs, if any
  denoTests,     \* the tests handed to Deno.test, in order
  runner,        \* Deno's test runner: registering or running, the next test
  hookLog        \* the hooks and test callbacks run so far, in order

shimVars == <<suites, throwingHook, denoTests, runner, hookLog>>

callVars == <<host, call, cbVars, shimVars>>

(***************************************************************************)
(* Bounds                                                                  *)
(***************************************************************************)
MaxLayoutFields == 3      \* longest field list of the layout specification
MaxFields == 2            \* longest generated field list of the pack specification
MaxEnumEntries == 2       \* most entries of a mapping handed to defineEnum
MaxEnumValue == 2         \* largest value of a mapping entry
MaxArgs == 2              \* most parameters of a symbol definition
MaxCallArgs == 2          \* most arguments of a symbol call
MaxViews == 2             \* views per buffer after which ptr() is no longer called
MaxByteOffset == 2        \* largest byteOffset given to toArrayBuffer
MaxByteLength == 2        \* largest byteLength given to toArrayBuffer
MaxListFields == 2        \* longest field list of the list specification
MaxListLen == 2           \* longest list handed to packList
MaxTextLen == 2           \* most code points of a text handed to stringWidth
MaxScalarFields == 2      \* longest field list of the scalar specification
MaxTransformFields == 2   \* longest field list of the transform specification
MaxWrapFields == 2        \* longest field list of the wrap specification
LongTextLen == 300        \* bytes of the long text of the wrap specification
MaxTests == 3             \* most tests registered in a test file
MaxCallbacks == 2         \* most JSCallback constructions
MaxCloses == 2            \* most close() calls on one JSCallback

(***************************************************************************)
(* JavaScript values                                                       *)
(***************************************************************************)
Undef     == [t |-> "undefined"]
Null      == [t |-> "null"]
Num(n)    == [t |-> "number", n |-> n]
Big(n)    == [t |-> "bigint", n |-> n]
Bool(b)   == [t |-> "boolean", b |-> b]
Str(s)    == [t |-> "string", s |-> s]       \* s: sequence of code points
Arr(a)    == [t |-> "array", a |-> a]        \* a: sequence of numbers
None    == [has |-> FALSE]
Some(x) == [has |-> TRUE, v |-> x]

Threw(kind) == [ok |-> FALSE, err |-> kind]
Returned(v)  == [ok |-> TRUE, v |-> v]

\* an opaque pointer object of Deno, and an object that is no pointer
Handle(a)   == [t |-> "handle", addr |-> a]
PlainObject == [t |-> "object"]
\* a number that is no integer (1.5, NaN)
Fraction    == [t |-> "fraction"]
\* a bigint of 2^31 or more, by its eight little-endian bytes
Big64(bytes) == [t |-> "bigint64", bytes |-> bytes]

\* globalThis: Bun (FFI, stringWidth), Deno (dlopen, build,
\* UnsafePointer.value and what it returns), process (platform, arch);
\* each global and each member may be missing
Host(bun, deno, process) == [Bun |-> bun, Deno |-> deno, process |-> process]
BunGlobal(ffi, width) == [FFI |-> ffi, stringWidth |-> width]
DenoGlobal(dl, build, value) == [dlopen |-> dl, build |-> build, value |-> value]
NoHost == Host(None, None, None)

NoField   == "<none>"                        \* an absent option / map miss
NoEnum    == <<>>                            \* no enumDef on a layout entry

RECURSIVE SeqToSet(_)
SeqToSet(s) == IF s = <<>> THEN {} ELSE {Head(s)} \cup SeqToSet(Tail(s))

SeqsUpTo(S, n) == UNION {[1..k -> S] : k \in 0..n}

(***************************************************************************)
(* deno-ffi-structs.ts: layout                                             *)
(***************************************************************************)
PrimitiveType ==
  {"u8", "bool_u8", "bool_u32", "u16", "i16", "u32", "i32", "u64", "f32", "f64", "pointer"}

primitiveSizes(ps) ==
  [ty \in PrimitiveType |->
     CASE ty = "u8" -> 1
       [] ty = "bool_u8" -> 1
       [] ty = "bool_u32" -> 4
       [] ty = "u16" -> 2
       [] ty = "i16" -> 2
       [] ty = "u32" -> 4
       [] ty = "i32" -> 4
       [] ty = "u64" -> 8
       [] ty = "f32" -> 4
       [] ty = "f64" -> 8
       [] ty = "pointer" -> ps]

\* x & y on non-negative 31-bit integers
RECURSIVE BitAnd(_, _)
BitAnd(x, y) ==
  IF x = 0 \/ y = 0 THEN 0
  ELSE (x % 2) * (y % 2) + 2 * BitAnd(x \div 2, y \div 2)

\* the low 31 bits of ~(align - 1); the sign bit is cleared by the & with a
\* non-negative left operand
NotLow31(n) == 2147483647 - n

alignOffsetNoRound(offset, align) == offset

alignOffset(offset, align) == BitAnd(offset + align - 1, NotLow31(align - 1))

Min(a, b) == IF a < b THEN a ELSE b
Max(a, b) == IF a > b THEN a ELSE b

\* A FieldDef [name, type, options] as a record; form tells the shape of the
\* type: a primitive tag, "char*", [primitive] or an EnumDef.
FieldDef(name, form, type, enum, optional, default, lengthOf) ==
  [name |-> name, form |-> form, type |-> type, enum |-> enum,
   optional |-> optional, default |-> default, lengthOf |-> lengthOf,
   packTransform |-> NoField]

\* the FieldDef with options.packTransform, a function by its name
WithPackTransform(f, transform) == [f EXCEPT !.packTransform = transform]

\* StructDefOptions: reduceValue, a function by its name, or absent
StructDefOptions(reduceValue) == [reduceValue |-> reduceValue]
NoOptions == StructDefOptions(NoField)

\* the loop body with an array field taking the size of its element type
layoutEntryElementSize(f, offset, ps) ==
  LET kind == CASE f.form = "array" -> "array"
                [] f.form = "char*" -> "char_ptr"
                [] f.form = "prim"  -> "primitive"
                [] OTHER            -> "enum"
      type == IF f.form = "char*" THEN "pointer" ELSE f.type
      sz   == primitiveSizes(ps)[type]
      align == Max(1, Min(sz, ps))
  IN [name |-> f.name, kind |-> kind, type |-> type,
      offset |-> alignOffset(offset, align), size |-> sz,
      optional |-> f.optional, defaultValue |-> f.default,
      lengthOf |-> f.lengthOf, packTransform |-> f.packTransform,
      enumDef |-> f.enum]

\* the body of the loop over fields (lines 104-151): one LayoutEntry
layoutEntry(f, offset, ps) ==
  LET kind == CASE f.form = "array" -> "array"
                [] f.form = "char*" -> "char_ptr"
                [] f.form = "prim"  -> "primitive"
                [] OTHER            -> "enum"
      type == IF f.form = "char*" THEN "pointer" ELSE f.type
      sz   == IF f.form \in {"array", "char*"} THEN ps ELSE primitiveSizes(ps)[type]
      align == Max(1, Min(sz, ps))
  IN [name |-> f.name, kind |-> kind, type |-> type,
      offset |-> alignOffset(offset, align), size |-> sz,
      optional |-> f.optional, defaultValue |-> f.default,
      lengthOf |-> f.lengthOf, packTransform |-> f.packTransform,
      enumDef |-> f.enum]

RECURSIVE layoutFrom(_, _, _)
layoutFrom(fs, offset, ps) ==
  IF fs = <<>> THEN <<>>
  ELSE LET e == layoutEntry(Head(fs), offset, ps)
       IN <<e>> \o layoutFrom(Tail(fs), e.offset + e.size, ps)

defineStructLayout(fs, ps) == layoutFrom(fs, 0, ps)

endOffset(lay) == IF lay = <<>> THEN 0 ELSE lay[Len(lay)].offset + lay[Len(lay)].size

defineStructSize(lay, ps) == alignOffset(endOffset(lay), ps)

(***************************************************************************)
(* Bytes, TextEncoder / TextDecoder, DataView                              *)
(***************************************************************************)
\* TextEncoder.encode of one code point (code points below 0x800)
encodeCodePoint(cp) ==
  IF cp < 128 THEN <<cp>>
  ELSE <<192 + (cp \div 64), 128 + (cp % 64)>>

RECURSIVE encode(_)
encode(s) ==
  IF s = <<>> THEN <<>>
  ELSE IF Len(s) = 1 THEN encodeCodePoint(s[1])
  ELSE LET half == Len(s) \div 2
       IN encode(SubSeq(s, 1, half)) \o encode(SubSeq(s, half + 1, Len(s)))

ReplacementChar == 65533

\* TextDecoder.decode: a malformed or truncated sequence yields U+FFFD
RECURSIVE decode(_)
decode(bytes) ==
  IF bytes = <<>> THEN <<>>
  ELSE LET b == Head(bytes) IN
       IF b < 128 THEN <<b>> \o decode(Tail(bytes))
       ELSE IF b >= 194 /\ b < 224 /\ Len(bytes) >= 2
               /\ bytes[2] >= 128 /\ bytes[2] < 192
            THEN <<(b - 192) * 64 + (bytes[2] - 128)>> \o decode(Tail(Tail(bytes)))
       ELSE <<ReplacementChar>> \o decode(Tail(bytes))

\* the n low bytes of v, least significant first
RECURSIVE LittleEndian(_, _)
LittleEndian(v, n) ==
  IF n = 0 THEN <<>> ELSE <<v % 256>> \o LittleEndian(v \div 256, n - 1)

RECURSIVE FromLittleEndian(_)
FromLittleEndian(bytes) ==
  IF bytes = <<>> THEN 0 ELSE Head(bytes) + 256 * FromLittleEndian(Tail(bytes))

\* two's complement reading of little-endian bytes
FromLittleEndianSigned(bytes) ==
  LET n  == Len(bytes)
      hi == bytes[n]
      lo == FromLittleEndian(SubSeq(bytes, 1, n - 1))
      top == IF hi >= 128 THEN hi - 256 ELSE hi
  IN IF n = 2 THEN lo + 256 * top ELSE lo + 16777216 * top

setBytes(buf, offset, bytes) ==
  [i \in 1..Len(buf) |->
     IF i > offset /\ i <= offset + Len(bytes) THEN bytes[i - offset] ELSE buf[i]]

getBytes(buf, offset, n) == SubSeq(buf, offset + 1, offset + n)

ZeroBytes(n) == [i \in 1..n |-> 0]

\* JavaScript truthiness (value ? 1 : 0)
Truthy(v) ==
  CASE v.t = "undefined" -> FALSE
    [] v.t = "null"      -> FALSE
    [] v.t = "number"    -> v.n # 0
    [] v.t = "bigint"    -> v.n # 0
    [] v.t = "boolean"   -> v.b
    [] v.t = "string"    -> v.s # <<>>
    [] OTHER             -> TRUE

IsDigits(s) == \A i \in 1..Len(s) : s[i] >= 48 /\ s[i] <= 57

RECURSIVE ParseDigits(_, _)
ParseDigits(s, acc) ==
  IF s = <<>> THEN acc ELSE ParseDigits(Tail(s), 10 * acc + (Head(s) - 48))

\* Number(value ?? 0) as the integer setters store it (NaN is stored as 0)
ToInteger(v) ==
  CASE v.t = "undefined" -> 0
    [] v.t = "null"      -> 0
    [] v.t = "number"    -> v.n
    [] v.t = "bigint"    -> v.n
    [] v.t = "boolean"   -> IF v.b THEN 1 ELSE 0
    [] v.t = "string"    -> IF IsDigits(v.s) THEN ParseDigits(v.s, 0) ELSE 0
    [] OTHER             -> 0

RECURSIVE Digits(_)
Digits(n) == IF n < 10 THEN <<48 + n>> ELSE Digits(n \div 10) \o <<48 + (n % 10)>>

\* String(value) for the values a char* field is given
ToStr(v) ==
  CASE v.t = "string"  -> v.s
    [] v.t = "number"  -> Digits(v.n)
    [] v.t = "bigint"  -> Digits(v.n)
    [] v.t = "boolean" -> IF v.b THEN <<116, 114, 117, 101>> ELSE <<102, 97, 108, 115, 101>>
    [] OTHER           -> <<>>

\* Deno.UnsafePointer.value of the host: the address of a pointer object,
\* as a number or a bigint by host version; it rejects what is no pointer
hostPointerValue(deno, pointer) ==
  IF pointer.t = "handle"
  THEN [ok |-> TRUE, v |-> IF deno.value = "bigint" THEN Big(pointer.addr)
                           ELSE Num(pointer.addr)]
  ELSE Threw("TypeError")

\* pointerToBigInt without the branch of lines 214-224
pointerToBigIntNoHandle(pointer, h) ==
  CASE pointer.t \in {"undefined", "null"} -> [ok |-> TRUE, v |-> 0]
    [] pointer.t = "bigint"   -> [ok |-> TRUE, v |-> pointer.n]
    [] pointer.t = "number"   -> [ok |-> TRUE, v |-> pointer.n]
    [] pointer.t = "fraction" -> Threw("RangeError")
    [] OTHER                  -> Threw("TypeError")

\* ffi.ts pointerToBigInt, lines 201-227, on the host h: the bigint, or
\* what is thrown (BigInt() throws a RangeError for a non-integer number)
pointerToBigInt(pointer, h) ==
  CASE pointer.t \in {"undefined", "null"} -> [ok |-> TRUE, v |-> 0]
    [] pointer.t = "bigint"   -> [ok |-> TRUE, v |-> pointer.n]
    [] pointer.t = "number"   -> [ok |-> TRUE, v |-> pointer.n]
    [] pointer.t = "fraction" -> Threw("RangeError")
    [] OTHER ->
         IF h.Deno.has /\ h.Deno.v.value # "none"
         THEN LET value == hostPointerValue(h.Deno.v, pointer)
              IN IF value.ok THEN [ok |-> TRUE, v |-> value.v.n]
                 ELSE value
         ELSE Threw("TypeError")

\* BigInt(value ?? 0) as setBigUint64 stores it
BigUint64Bytes(value) ==
  IF value.t = "bigint64" THEN value.bytes ELSE LittleEndian(ToInteger(value), 8)

\* what getBigUint64 returns
BigUint64Value(bytes) ==
  IF bytes[4] < 128 /\ \A k \in 5..8 : bytes[k] = 0
  THEN Big(FromLittleEndian(bytes)) ELSE Big64(bytes)

\* lines 376-418 with the multi-byte setters called without littleEndian
writePrimitiveBigEndian(view, type, offset, value, ps) ==
  LET Rev(b) == [k \in 1..Len(b) |-> b[Len(b) + 1 - k]] IN
  CASE type = "u8"       -> setBytes(view, offset, LittleEndian(ToInteger(value), 1))
    [] type = "bool_u8"  -> setBytes(view, offset, <<IF Truthy(value) THEN 1 ELSE 0>>)
    [] type = "bool_u32" -> setBytes(view, offset, Rev(LittleEndian(IF Truthy(value) THEN 1 ELSE 0, 4)))
    [] type = "u16"      -> setBytes(view, offset, Rev(LittleEndian(ToInteger(value), 2)))
    [] type = "i16"      -> setBytes(view, offset, Rev(LittleEndian(ToInteger(value), 2)))
    [] type = "u32"      -> setBytes(view, offset, Rev(LittleEndian(ToInteger(value), 4)))
    [] type = "i32"      -> setBytes(view, offset, Rev(LittleEndian(ToInteger(value), 4)))
    [] type = "u64"      -> setBytes(view, offset, Rev(BigUint64Bytes(value)))
    [] type = "pointer"  -> setBytes(view, offset, Rev(LittleEndian(pointerToBigInt(value, NoHost).v, ps)))

\* lines 376-418 with the unsigned setters clamping to the range of the field
writePrimitiveClamping(view, type, offset, value, ps) ==
  LET Clamp(v, top) == IF v < 0 THEN 0 ELSE IF v > top THEN top ELSE v IN
  CASE type = "u8"       -> setBytes(view, offset, LittleEndian(Clamp(ToInteger(value), 255), 1))
    [] type = "bool_u8"  -> setBytes(view, offset, <<IF Truthy(value) THEN 1 ELSE 0>>)
    [] type = "bool_u32" -> setBytes(view, offset, LittleEndian(IF Truthy(value) THEN 1 ELSE 0, 4))
    [] type = "u16"      -> setBytes(view, offset, LittleEndian(Clamp(ToInteger(value), 65535), 2))
    [] type = "i16"      -> setBytes(view, offset, LittleEndian(ToInteger(value), 2))
    [] type = "u32"      -> setBytes(view, offset, LittleEndian(Clamp(ToInteger(value), 2147483647), 4))
    [] type = "i32"      -> setBytes(view, offset, LittleEndian(ToInteger(value), 4))
    [] type = "u64"      -> setBytes(view, offset, BigUint64Bytes(value))
    [] type = "pointer"  -> setBytes(view, offset, LittleEndian(pointerToBigInt(value, NoHost).v, ps))

\* lines 376-418 (the float types are not used by the structs modelled)
writePrimitive(view, type, offset, value, ps) ==
  CASE type = "u8"       -> setBytes(view, offset, LittleEndian(ToInteger(value), 1))
    [] type = "bool_u8"  -> setBytes(view, offset, <<IF Truthy(value) THEN 1 ELSE 0>>)
    [] type = "bool_u32" -> setBytes(view, offset, LittleEndian(IF Truthy(value) THEN 1 ELSE 0, 4))
    [] type = "u16"      -> setBytes(view, offset, LittleEndian(ToInteger(value), 2))
    [] type = "i16"      -> setBytes(view, offset, LittleEndian(ToInteger(value), 2))
    [] type = "u32"      -> setBytes(view, offset, LittleEndian(ToInteger(value), 4))
    [] type = "i32"      -> setBytes(view, offset, LittleEndian(ToInteger(value), 4))
    [] type = "u64"      -> setBytes(view, offset, BigUint64Bytes(value))
    [] type = "pointer"  -> setBytes(view, offset, LittleEndian(pointerToBigInt(value, NoHost).v, ps))

readPrimitive(view, type, offset, ps) ==
  CASE type = "u8"       -> Num(FromLittleEndian(getBytes(view, offset, 1)))
    [] type = "bool_u8"  -> Bool(FromLittleEndian(getBytes(view, offset, 1)) # 0)
    [] type = "bool_u32" -> Bool(FromLittleEndian(getBytes(view, offset, 4)) # 0)
    [] type = "u16"      -> Num(FromLittleEndian(getBytes(view, offset, 2)))
    [] type = "i16"      -> Num(FromLittleEndianSigned(getBytes(view, offset, 2)))
    [] type = "u32"      -> Num(FromLittleEndian(getBytes(view, offset, 4)))
    [] type = "i32"      -> Num(FromLittleEndianSigned(getBytes(view, offset, 4)))
    [] type = "u64"      -> BigUint64Value(getBytes(view, offset, 8))
    [] type = "pointer"  -> Big(FromLittleEndian(getBytes(view, offset, ps)))

(***************************************************************************)
(* deno-ffi-structs.ts: defineEnum                                         *)
(* A mapping is the sequence of its [name, value] entries in insertion     *)
(* order (Object.entries order); names are distinct object keys.           *)
(***************************************************************************)
Entry(name, value) == [name |-> name, value |-> value]


\* mapping[name] !== undefined, and mapping[name]
mappingHas(mapping, name) == \E i \in 1..Len(mapping) : mapping[i].name = name
mappingGet(mapping, name) ==
  mapping[CHOOSE i \in 1..Len(mapping) : mapping[i].name = name].value

\* reverse.get(value) after the loop of lines 72-74: a later entry with the
\* same value replaces the earlier one
reverseHas(mapping, value) == \E i \in 1..Len(mapping) : mapping[i].value = value
reverseGet(mapping, value) ==
  LET hits == {i \in 1..Len(mapping) : mapping[i].value = value}
  IN mapping[CHOOSE i \in hits : \A j \in hits : j <= i].name

\* EnumDef.to (lines 80-89); undefined and null are looked up as keys the
\* mapping does not have
enumTo(mapping, value) ==
  IF value.t = "number" THEN Returned(value.n)
  ELSE IF value.t = "string" /\ mappingHas(mapping, value.s)
       THEN Returned(mappingGet(mapping, value.s))
       ELSE Threw("TypeError")

\* EnumDef.from (lines 90-96)
enumFrom(mapping, n) ==
  IF reverseHas(mapping, n) THEN Returned(reverseGet(mapping, n))
  ELSE Threw("TypeError")

(***************************************************************************)
(* deno-ffi-structs.ts: pack                                               *)
(***************************************************************************)
\* new Map(layout.map((entry) => [entry.name, entry])).get(name)
byNameHas(lay, name) == \E i \in 1..Len(lay) : lay[i].name = name
byNameGet(lay, name) ==
  lay[CHOOSE i \in 1..Len(lay) :
        lay[i].name = name /\ \A j \in 1..Len(lay) : lay[j].name = name => j <= i]

\* inferredLengthFieldFor.get(name) after the loop of lines 157-165
inferredLengthFieldFor(lay, name) ==
  LET hits == {i \in 1..Len(lay) :
                 /\ lay[i].lengthOf # NoField
                 /\ lay[i].kind \in {"primitive", "enum"}
                 /\ lay[i].lengthOf = name}
  IN IF hits = {} THEN NoField
     ELSE lay[CHOOSE i \in hits : \A j \in hits : j <= i].name

\* input[name]
inputGet(inp, name) == IF name \in DOMAIN inp THEN inp[name] ELSE Undef

\* the address ptr() returns for the k-th payload buffer that was allocated
AddrOf(k) == 256 * k

\* an out-of-line payload buffer: its bytes and where its memory is
Payload(addr, bytes) == [addr |-> addr, bytes |-> bytes]

\* the bytes of the retained buffer at the address, none when no retained
\* buffer is there
payloadAt(refs, addr) ==
  LET hit == {i \in DOMAIN refs : refs[i].addr = addr}
  IN IF hit = {} THEN <<>> ELSE refs[CHOOSE i \in hit : TRUE].bytes

\* lines 184-196: the value of a length field, from the raw input
derivedLength(sourceValue, fieldValue) ==
  CASE sourceValue.t = "string" -> Num(Len(encode(sourceValue.s)))
    [] sourceValue.t = "array"  -> Num(Len(sourceValue.a))
    [] OTHER                    -> fieldValue

\* the functions given as packTransform: v => v + 1 and v => v ?? 7, on
\* undefined, null, numbers and strings
applyTransform(transform, v) ==
  CASE transform = "increment" ->
         (CASE v.t = "number"    -> Num(v.n + 1)
            [] v.t = "null"      -> Num(1)
            [] v.t = "undefined" -> Fraction
            [] v.t = "string"    -> Str(v.s \o <<49>>))
    [] transform = "orSeven" ->
         IF v.t \in {"undefined", "null"} THEN Num(7) ELSE v

\* the function given as reduceValue: value => value.inner
applyReduce(reduce, value) == value["inner"]

\* line 168
reduceInput(opts, value) ==
  IF opts.reduceValue # NoField THEN applyReduce(opts.reduceValue, value) ELSE value

\* lines 175-200 with packTransform applied before the default is substituted
resolveFieldValueTransformFirst(entry, inp) ==
  LET fv0 == inputGet(inp, entry.name)
      fvT == IF entry.packTransform # NoField
             THEN applyTransform(entry.packTransform, fv0) ELSE fv0
      fv1 == IF fvT.t = "undefined" /\ entry.defaultValue.t # "undefined"
             THEN entry.defaultValue ELSE fvT
      fv2 == IF entry.kind \in {"primitive", "enum"} /\ entry.lengthOf # NoField
             THEN derivedLength(inputGet(inp, entry.lengthOf), fv1) ELSE fv1
  IN IF fv2.t = "undefined" /\ entry.optional THEN Null ELSE fv2

\* lines 175-200: the value pack writes for the entry
resolveFieldValue(entry, inp) ==
  LET fv0 == inputGet(inp, entry.name)
      fv1 == IF fv0.t = "undefined" /\ entry.defaultValue.t # "undefined"
             THEN entry.defaultValue ELSE fv0
      fvT == IF entry.packTransform # NoField
             THEN applyTransform(entry.packTransform, fv1) ELSE fv1
      fv2 == IF entry.kind \in {"primitive", "enum"} /\ entry.lengthOf # NoField
             THEN derivedLength(inputGet(inp, entry.lengthOf), fvT) ELSE fvT
  IN IF fv2.t = "undefined" /\ entry.optional THEN Null ELSE fv2

\* lines 229-234: the payload of an array field
RECURSIVE arrayPayload(_, _, _)
arrayPayload(values, type, ps) ==
  IF values = <<>> THEN <<>>
  ELSE writePrimitive(ZeroBytes(primitiveSizes(ps)[type]), type, 0, Num(Head(values)), ps)
       \o arrayPayload(Tail(values), type, ps)

\* lines 218-223 and 243-248: the length written through a payload field's
\* own lengthOf
writeLinkedLength(buf, entry, lay, n, ps) ==
  IF entry.lengthOf # NoField /\ byNameHas(lay, entry.lengthOf)
  THEN LET lenField == byNameGet(lay, entry.lengthOf)
       IN writePrimitive(buf, lenField.type, lenField.offset, Num(n), ps)
  ELSE buf

\* lines 212-217 and 236-241: null pointer for an empty payload, else the
\* payload is retained and its pointer written
writePayloadUnretained(st, entry, payload, ps) ==
  IF Len(payload) = 0
  THEN [st EXCEPT !.buf = writePrimitive(st.buf, "pointer", entry.offset, Num(0), ps)]
  ELSE [st EXCEPT !.made = st.made + 1,
                  !.buf = writePrimitive(st.buf, "pointer", entry.offset,
                                         Big(AddrOf(st.made + 1)), ps)]

writePayload(st, entry, payload, ps) ==
  IF Len(payload) = 0
  THEN [st EXCEPT !.buf = writePrimitive(st.buf, "pointer", entry.offset, Num(0), ps)]
  ELSE [st EXCEPT !.allocated = Append(st.allocated, Payload(AddrOf(st.made + 1), payload)),
                  !.made = st.made + 1,
                  !.buf = writePrimitive(st.buf, "pointer", entry.offset,
                                         Big(AddrOf(st.made + 1)), ps)]

\* one iteration of the loop of lines 174-252
packEntry(st, entry, lay, inp, ps) ==
  LET fieldValue == resolveFieldValue(entry, inp) IN
  CASE entry.kind = "primitive" ->
         [st EXCEPT !.buf = writePrimitive(st.buf, entry.type, entry.offset, fieldValue, ps)]
    [] entry.kind = "enum" ->
         LET mapped == enumTo(entry.enumDef, fieldValue) IN
         IF mapped.ok
         THEN [st EXCEPT !.buf = writePrimitive(st.buf, entry.type, entry.offset, Num(mapped.v), ps)]
         ELSE [st EXCEPT !.threw = TRUE]
    [] entry.kind = "char_ptr" ->
         LET text    == IF fieldValue.t \in {"undefined", "null"} THEN <<>> ELSE ToStr(fieldValue)
             encoded == encode(text)
             st1     == writePayload(st, entry, encoded, ps)
         IN [st1 EXCEPT !.buf = writeLinkedLength(st1.buf, entry, lay, Len(encoded), ps)]
    [] entry.kind = "array" ->
         LET values == IF fieldValue.t = "array" THEN fieldValue.a ELSE <<>>
             arrBuf == arrayPayload(values, entry.type, ps)
             st1    == writePayload(st, entry, arrBuf, ps)
         IN [st1 EXCEPT !.buf = writeLinkedLength(st1.buf, entry, lay, Len(values), ps)]

RECURSIVE packLoop(_, _, _, _, _)
packLoop(st, i, lay, inp, ps) ==
  IF i > Len(lay) \/ st.threw THEN st
  ELSE packLoop(packEntry(st, lay[i], lay, inp, ps), i + 1, lay, inp, ps)

\* lines 169-256 on the reduced input, in a process that allocated `made`
\* payload buffers before:
\* the buffer, its _refs, or the exception of EnumDef.to
packFrom(lay, sz, inp, ps, made) ==
  packLoop([buf |-> ZeroBytes(sz), allocated |-> <<>>, made |-> made, threw |-> FALSE],
           1, lay, inp, ps)

pack(lay, sz, inp, ps) == packFrom(lay, sz, inp, ps, 0)

\* lines 338-346, from element i on: each element's bytes at stride size,
\* refs gets the packed buffer (no pointer is taken of it: address 0) and
\* then its _refs
RECURSIVE packListLoop(_, _, _, _, _, _)
packListLoop(st, i, values, lay, sz, ps) ==
  IF i > Len(values) \/ st.threw THEN st
  ELSE LET packed == packFrom(lay, sz, values[i], ps, st.made)
       IN packListLoop([buf   |-> st.buf \o packed.buf,
                        refs  |-> (st.refs \o <<Payload(0, packed.buf)>>) \o packed.allocated,
                        made  |-> packed.made,
                        threw |-> packed.threw],
                       i + 1, values, lay, sz, ps)

\* packList(values), lines 333-352
packList(values, lay, sz, ps) ==
  packListLoop([buf |-> <<>>, refs |-> <<>>, made |-> 0, threw |-> FALSE],
               1, values, lay, sz, ps)

(***************************************************************************)
(* deno-ffi-structs.ts: unpack                                             *)
(***************************************************************************)
\* ffi.ts toArrayBuffer(pointer, 0, len) as unpack uses it: len bytes of
\* native memory at the address.  Bytes outside every payload pack
\* allocated are whatever the process holds there: the byte g.
toArrayBufferAt(hp, pointer, len, g) ==
  LET off   == pointer % 256
      bytes == payloadAt(hp, pointer - off)
  IN [i \in 1..len |-> IF off + i <= Len(bytes) THEN bytes[off + i] ELSE g]

outGet(o, name) == IF name \in DOMAIN o THEN o[name] ELSE Undef

outSet(o, name, value) ==
  [n \in (DOMAIN o) \cup {name} |-> IF n = name THEN value ELSE o[n]]

\* lines 262-278; the length fields of the modelled structs hold numbers,
\* bigints or booleans, for which Number() is the integer itself
getLengthFieldValue(view, lay, o, fieldName, ps) ==
  IF fieldName = NoField THEN 0
  ELSE IF outGet(o, fieldName).t # "undefined" THEN ToInteger(outGet(o, fieldName))
  ELSE IF ~byNameHas(lay, fieldName) THEN 0
  ELSE LET field == byNameGet(lay, fieldName)
       IN ToInteger(readPrimitive(view, field.type, field.offset, ps))

\* lines 294 and 306: entry.lengthOf ?? inferredLengthFieldFor.get(entry.name)
lengthFieldOf(entry, lay) ==
  IF entry.lengthOf # NoField THEN entry.lengthOf
  ELSE inferredLengthFieldFor(lay, entry.name)

\* lines 311-317: the elements of an array payload
RECURSIVE arrayItems(_, _, _, _)
arrayItems(bytes, type, n, ps) ==
  IF n = 0 THEN <<>>
  ELSE LET es == primitiveSizes(ps)[type]
       IN <<readPrimitive(bytes, type, 0, ps).n>>
          \o arrayItems(SubSeq(bytes, es + 1, Len(bytes)), type, n - 1, ps)

\* one iteration of the loop of lines 280-328
unpackEntry(st, entry, view, lay, hp, g, ps) ==
  CASE entry.kind = "primitive" ->
         [st EXCEPT !.out = outSet(st.out, entry.name,
                                   readPrimitive(view, entry.type, entry.offset, ps))]
    [] entry.kind = "enum" ->
         LET raw  == ToInteger(readPrimitive(view, entry.type, entry.offset, ps))
             name == enumFrom(entry.enumDef, raw)
         IN IF name.ok
            THEN [st EXCEPT !.out = outSet(st.out, entry.name, Str(name.v))]
            ELSE [st EXCEPT !.threw = TRUE]
    [] entry.kind = "char_ptr" ->
         LET pointer == readPrimitive(view, "pointer", entry.offset, ps)
             len     == getLengthFieldValue(view, lay, st.out, lengthFieldOf(entry, lay), ps)
             value   == IF ~Truthy(pointer) \/ len <= 0 THEN Str(<<>>)
                        ELSE Str(decode(toArrayBufferAt(hp, pointer.n, len, g)))
         IN [st EXCEPT !.out = outSet(st.out, entry.name, value)]
    [] entry.kind = "array" ->
         LET pointer == readPrimitive(view, "pointer", entry.offset, ps)
             len     == getLengthFieldValue(view, lay, st.out, lengthFieldOf(entry, lay), ps)
             es      == primitiveSizes(ps)[entry.type]
             value   == IF ~Truthy(pointer) \/ len <= 0 THEN Arr(<<>>)
                        ELSE Arr(arrayItems(toArrayBufferAt(hp, pointer.n, len * es, g),
                                            entry.type, len, ps))
         IN [st EXCEPT !.out = outSet(st.out, entry.name, value)]

RECURSIVE unpackLoop(_, _, _, _, _, _, _)
unpackLoop(st, i, view, lay, hp, g, ps) ==
  IF i > Len(lay) \/ st.threw THEN st
  ELSE unpackLoop(unpackEntry(st, lay[i], view, lay, hp, g, ps), i + 1, view, lay, hp, g, ps)

\* unpack(buffer): the record, or the exception of EnumDef.from
unpack(view, lay, hp, g, ps) ==
  unpackLoop([out |-> <<>>, threw |-> FALSE], 1, view, lay, hp, g, ps)

\* lines 358-361 with every slice taken at byte 0
RECURSIVE unpackListLoopNoStride(_, _, _, _, _, _, _, _, _)
unpackListLoopNoStride(st, i, bytes, count, lay, sz, hp, g, ps) ==
  IF i >= count \/ st.threw THEN st
  ELSE LET r == unpack(SubSeq(bytes, 1, sz), lay, hp, g, ps)
       IN unpackListLoopNoStride([out |-> Append(st.out, r.out), threw |-> r.threw],
                                 i + 1, bytes, count, lay, sz, hp, g, ps)

\* lines 358-361, from element i (0-based) on: unpack of the copy of bytes
\* [i * size, i * size + size)
RECURSIVE unpackListLoop(_, _, _, _, _, _, _, _, _)
unpackListLoop(st, i, bytes, count, lay, sz, hp, g, ps) ==
  IF i >= count \/ st.threw THEN st
  ELSE LET start == i * sz
           r     == unpack(SubSeq(bytes, start + 1, start + sz), lay, hp, g, ps)
       IN unpackListLoop([out |-> Append(st.out, r.out), threw |-> r.threw],
                         i + 1, bytes, count, lay, sz, hp, g, ps)

\* unpackList(buffer, count), lines 354-364
unpackList(bytes, count, lay, sz, hp, g, ps) ==
  unpackListLoop([out |-> <<>>, threw |-> FALSE], 0, bytes, count, lay, sz, hp, g, ps)

(***************************************************************************)
(* ffi.ts: symbol tables                                                   *)
(***************************************************************************)
\* a ?? b
Coalesce(a, b) == IF a.has THEN a ELSE b

\* CompatSymbolDefinition
SymbolDefinition(args, parameters, returns, result, nonblocking) ==
  [args |-> args, parameters |-> parameters, returns |-> returns,
   result |-> result, nonblocking |-> nonblocking]

normalizeSymbolArgsOnly(symbol) ==
  [args |-> Coalesce(symbol.args, Some(<<>>)).v,
   returns |-> Coalesce(symbol.returns, Some("void")).v,
   nonblocking |-> symbol.nonblocking]

normalizeSymbol(symbol) ==
  [args |-> Coalesce(symbol.parameters, Coalesce(symbol.args, Some(<<>>))).v,
   returns |-> Coalesce(symbol.result, Coalesce(symbol.returns, Some("void"))).v,
   nonblocking |-> symbol.nonblocking]

toDenoType(type) == IF type = "ptr" THEN "pointer" ELSE type

toBunSymbols(syms) == [name \in DOMAIN syms |-> normalizeSymbol(syms[name])]

toDenoSymbols(syms) ==
  [name \in DOMAIN syms |->
     LET n == normalizeSymbol(syms[name])
     IN [parameters |-> [i \in DOMAIN n.args |-> toDenoType(n.args[i])],
         result |-> toDenoType(n.returns),
         nonblocking |-> n.nonblocking]]

normalizeSymbolsForRuntime(syms, rt) ==
  IF rt = "bun" THEN toBunSymbols(syms) ELSE toDenoSymbols(syms)

getPointerParameterIndicesPtrOnly(symbol) ==
  LET args == Coalesce(symbol.parameters, Coalesce(symbol.args, Some(<<>>))).v
  IN {i \in DOMAIN args : args[i] = "ptr"}

\* the indices are a set here; the loop that uses them touches each index
\* once and the indices do not depend on one another
getPointerParameterIndices(symbol) ==
  LET args == Coalesce(symbol.parameters, Coalesce(symbol.args, Some(<<>>))).v
  IN {i \in DOMAIN args : args[i] = "ptr" \/ args[i] = "pointer"}

(***************************************************************************)
(* ffi.ts: ptr, toDenoBufferView, toArrayBuffer                            *)
(***************************************************************************)
ArrayBuffer(b) == [t |-> "ArrayBuffer", buf |-> b]
\* a typed view of buffer b: n = 0 is a view the caller made, n >= 1 the
\* n-th view toDenoBufferView made for b
View(b, n)     == [t |-> "view", buf |-> b, n |-> n]
Pointer(a)     == [t |-> "pointer", addr |-> a]

Buffers == {"b0", "b1", "b2"}

\* the host's address of a buffer's bytes; the zero-length buffer b0 has none
HostAddr(b) == CASE b = "b1" -> 256 [] b = "b2" -> 512 [] OTHER -> 0

\* Deno.UnsafePointer.of(view) / Bun's ptr(value): null for b0
hostPointerOf(value) ==
  IF HostAddr(value.buf) = 0 THEN None ELSE Some(Pointer(HostAddr(value.buf)))

toDenoBufferViewUncached(value, views, created) ==
  IF value.t # "ArrayBuffer" THEN [view |-> value, views |-> views, created |-> created]
  ELSE [view |-> View(value.buf, created[value.buf] + 1),
        views |-> [views EXCEPT ![value.buf] = Some(View(value.buf, created[value.buf] + 1))],
        created |-> [created EXCEPT ![value.buf] = @ + 1]]

\* lines 360-373: the view, and the WeakMap after the call
toDenoBufferView(value, views, created) ==
  IF value.t # "ArrayBuffer" THEN [view |-> value, views |-> views, created |-> created]
  ELSE IF views[value.buf].has
       THEN [view |-> views[value.buf].v, views |-> views, created |-> created]
       ELSE [view |-> View(value.buf, created[value.buf] + 1),
             views |-> [views EXCEPT ![value.buf] = Some(View(value.buf, created[value.buf] + 1))],
             created |-> [created EXCEPT ![value.buf] = @ + 1]]

\* ptr(value), lines 159-173: the pointer or the exception, the view the
\* address was taken from, and the WeakMap after the call
ptr(value, rt, views, created) ==
  IF rt = "bun"
  THEN [res |-> IF hostPointerOf(value).has THEN Returned(hostPointerOf(value).v)
                ELSE Threw("Error"),
        view |-> None, views |-> views, created |-> created]
  ELSE LET r == toDenoBufferView(value, views, created)
       IN [res |-> IF hostPointerOf(r.view).has THEN Returned(hostPointerOf(r.view).v)
                   ELSE Threw("Error"),
           view |-> Some(r.view), views |-> r.views, created |-> r.created]

\* the byte the process holds at a native address
MemByte(addr) == addr % 251

\* the host reads n bytes at a pointer
hostRead(addr, n) == [i \in 1..n |-> MemByte(addr + i - 1)]

\* toArrayBuffer(pointer, byteOffset, byteLength), lines 175-191; byteLength
\* is optional, hostLength is the length Bun picks when it is absent
toArrayBuffer(pointer, byteOffset, byteLength, rt, hasOffset, hostLength) ==
  IF rt = "bun"
  THEN [target |-> pointer.addr + byteOffset,
        res |-> Returned(hostRead(pointer.addr + byteOffset,
                                  Coalesce(byteLength, Some(hostLength)).v))]
  ELSE LET targetPointer == IF byteOffset > 0 /\ hasOffset
                            THEN pointer.addr + byteOffset ELSE pointer.addr
       IN [target |-> targetPointer,
           res |-> Returned(hostRead(targetPointer, Coalesce(byteLength, Some(0)).v))]

(***************************************************************************)
(* ffi.ts: wrapDenoSymbols                                                 *)
(***************************************************************************)
IsBufferLike(value) == value.t \in {"ArrayBuffer", "view"}

\* lines 127-136: the loop over pointerIndices, in increasing index order
RECURSIVE convertArgs(_, _, _)
convertArgs(st, indices, rt) ==
  IF indices = {} \/ st.threw THEN st
  ELSE LET i     == CHOOSE k \in indices : \A j \in indices : k <= j
           value == IF i \in DOMAIN st.args THEN st.args[i] ELSE Undef
           rest  == indices \ {i}
       IN IF value.t \in {"null", "undefined"} \/ ~IsBufferLike(value)
          THEN convertArgs(st, rest, rt)
          ELSE LET p == ptr(value, rt, st.views, st.created)
               IN convertArgs([args |-> IF p.res.ok THEN [st.args EXCEPT ![i] = p.res.v]
                                        ELSE st.args,
                               views |-> p.views, created |-> p.created,
                               threw |-> ~p.res.ok],
                              rest, rt)

\* wrapped[name](...args), lines 111-139: the arguments nativeSymbol gets
wrappedCall(definition, args, rt, views, created) ==
  LET pointerIndices == getPointerParameterIndices(definition)
      start == [args |-> args, views |-> views, created |-> created, threw |-> FALSE]
  IN IF pointerIndices = {} THEN start ELSE convertArgs(start, pointerIndices, rt)

\* the symbols object of a Deno library with only the converting wrappers
wrapDenoSymbolsWrappersOnly(nativeSymbols, syms) ==
  [name \in {n \in nativeSymbols :
               n \in DOMAIN syms /\ getPointerParameterIndices(syms[n]) # {}}
     |-> "wrapped"]

\* lines 108-143: every native symbol is kept, as it is ("native") or behind
\* the converting wrapper ("wrapped")
wrapDenoSymbols(nativeSymbols, syms) ==
  [name \in nativeSymbols |->
     IF name \notin DOMAIN syms THEN "native"
     ELSE IF getPointerParameterIndices(syms[name]) = {} THEN "native"
     ELSE "wrapped"]

\* ffi.dlopen / deno.dlopen of the host: throws when the file is missing or
\* a requested name is not exported, else binds every requested name
hostDlopen(library, table) ==
  IF library.exists /\ DOMAIN table \subseteq library.exports
  THEN [threw |-> FALSE, symbols |-> DOMAIN table]
  ELSE [threw |-> TRUE, symbols |-> {}]

\* dlopen, lines 86-106: nothing catches what the host loader throws
dlopen(library, syms, rt) ==
  LET handed == normalizeSymbolsForRuntime(syms, rt)
      loaded == hostDlopen(library, handed)
  IN [handed |-> handed,
      threw  |-> loaded.threw,
      symbols |-> IF loaded.threw THEN <<>>
                  ELSE IF rt = "bun" THEN [name \in loaded.symbols |-> "native"]
                  ELSE wrapDenoSymbols(loaded.symbols, syms)]

(***************************************************************************)
(* runtime.ts: detectFfiRuntime, getRuntimePlatformArch                    *)
(***************************************************************************)
\* a member that is there and truthy: `x?.member` in a condition
TruthyString(member) == member.has /\ member.v # ""

\* lines 57-67, testing the globals and not their FFI and dlopen members
detectFfiRuntimeByGlobal(h) ==
  IF h.Bun.has THEN Returned("bun")
  ELSE IF h.Deno.has THEN Returned("deno")
  ELSE Threw("Error")

\* lines 57-67
detectFfiRuntime(h) ==
  IF h.Bun.has /\ h.Bun.v.FFI THEN Returned("bun")
  ELSE IF h.Deno.has /\ h.Deno.v.dlopen THEN Returned("deno")
  ELSE Threw("Error")

\* lines 228-234
normalizePlatform(platform) == IF platform = "windows" THEN "win32" ELSE platform

\* lines 236-246, without the aarch64 case
normalizeArchX86Only(arch) == IF arch = "x86_64" THEN "x64" ELSE arch

\* lines 236-246
normalizeArch(arch) ==
  IF arch = "x86_64" THEN "x64"
  ELSE IF arch = "aarch64" THEN "arm64"
  ELSE arch

\* lines 73-91
getRuntimePlatformArch(h) ==
  IF h.process.has /\ TruthyString(h.process.v.platform) /\ TruthyString(h.process.v.arch)
  THEN Returned([platform |-> normalizePlatform(h.process.v.platform.v),
                 arch     |-> normalizeArch(h.process.v.arch.v)])
  ELSE IF /\ h.Deno.has /\ h.Deno.v.build.has
          /\ TruthyString(h.Deno.v.build.v.os) /\ TruthyString(h.Deno.v.build.v.arch)
  THEN Returned([platform |-> normalizePlatform(h.Deno.v.build.v.os.v),
                 arch     |-> normalizeArch(h.Deno.v.build.v.arch.v)])
  ELSE Threw("Error")

\* deno-ffi-structs.ts lines 451-463: `x?.arch === "..."` is false when the
\* object or the member is absent
getPointerSize(h) ==
  LET procArch == IF h.process.has THEN h.process.v.arch ELSE None
      denoArch == IF h.Deno.has /\ h.Deno.v.build.has THEN h.Deno.v.build.v.arch ELSE None
  IN IF procArch.has /\ procArch.v \in {"x64", "arm64"} THEN 8
     ELSE IF denoArch.has /\ denoArch.v \in {"x86_64", "aarch64"} THEN 8
     ELSE 4

(***************************************************************************)
(* runtime.ts: stringWidth                                                 *)
(***************************************************************************)
\* the code points texts are made of, with their Unicode properties:
\* NUL, LF, DEL, U+009F, "A", "e", COPYRIGHT SIGN, COMBINING ACUTE ACCENT,
\* ZERO WIDTH JOINER, HANGUL CHOSEONG KIYEOK, IDEOGRAPHIC LEVEL TONE MARK,
\* IDEOGRAPHIC HALF FILL SPACE, CJK IDEOGRAPH 4E2D, VARIATION SELECTOR-16,
\* FULLWIDTH A, REGIONAL INDICATOR A, SLIGHTLY SMILING FACE,
\* CJK IDEOGRAPH 20000
CodePoints ==
  {0, 10, 127, 159, 65, 101, 169, 769, 8205, 4352, 12330, 12351, 20013, 65039,
   65313, 127462, 128578, 131072}

\* /\p{Mark}/u: general categories Mn, Mc, Me
IsMark(codePoint) == codePoint \in {769, 12330, 65039}

\* /\p{Extended_Pictographic}/u
IsExtendedPictographic(codePoint) == codePoint \in {169, 128578}

\* lines 151-171
isFullWidthCodePoint(codePoint) ==
  /\ codePoint >= 4352
  /\ \/ codePoint <= 4447
     \/ codePoint = 9001
     \/ codePoint = 9002
     \/ (codePoint >= 11904 /\ codePoint <= 12871 /\ codePoint # 12351)
     \/ (codePoint >= 12880 /\ codePoint <= 19903)
     \/ (codePoint >= 19968 /\ codePoint <= 42182)
     \/ (codePoint >= 43360 /\ codePoint <= 43388)
     \/ (codePoint >= 44032 /\ codePoint <= 55203)
     \/ (codePoint >= 63744 /\ codePoint <= 64255)
     \/ (codePoint >= 65040 /\ codePoint <= 65049)
     \/ (codePoint >= 65072 /\ codePoint <= 65131)
     \/ (codePoint >= 65281 /\ codePoint <= 65376)
     \/ (codePoint >= 65504 /\ codePoint <= 65510)
     \/ (codePoint >= 110592 /\ codePoint <= 110593)
     \/ (codePoint >= 127488 /\ codePoint <= 127569)
     \/ (codePoint >= 131072 /\ codePoint <= 262141)

\* lines 127-149, without the test for marks and variation selectors
getCharWidthNoMarks(codePoint) ==
  IF codePoint <= 31 \/ (codePoint >= 127 /\ codePoint <= 159) THEN 0
  ELSE IF IsExtendedPictographic(codePoint) \/ isFullWidthCodePoint(codePoint) THEN 2
  ELSE 1

\* lines 127-149; a char of the loop always has a code point
getCharWidth(codePoint) ==
  IF codePoint <= 31 \/ (codePoint >= 127 /\ codePoint <= 159) THEN 0
  ELSE IF IsMark(codePoint) \/ (codePoint >= 65024 /\ codePoint <= 65039) THEN 0
  ELSE IF IsExtendedPictographic(codePoint) \/ isFullWidthCodePoint(codePoint) THEN 2
  ELSE 1

\* lines 119-124: the loop over the code points of the text
RECURSIVE sumCharWidths(_)
sumCharWidths(text) ==
  IF text = <<>> THEN 0 ELSE getCharWidth(Head(text)) + sumCharWidths(Tail(text))

\* lines 113-125: Bun.stringWidth when the host has it (its result is the
\* host's: nativeWidth), else the sum
stringWidth(text, h, nativeWidth) ==
  IF h.Bun.has /\ h.Bun.v.stringWidth THEN nativeWidth ELSE sumCharWidths(text)

(***************************************************************************)
(* Struct definitions and values the specifications draw from              *)
(***************************************************************************)
Plain(name, form, type) == FieldDef(name, form, type, NoEnum, FALSE, Undef, NoField)

\* a text longer than a u8 can count: "A" LongTextLen times
LongText == [k \in 1..LongTextLen |-> 65]

\* every field shape defineStruct distinguishes, named by position
LayoutFieldShapes ==
  {[form |-> "prim", type |-> ty] : ty \in PrimitiveType}
    \cup {[form |-> "char*", type |-> "pointer"], [form |-> "array", type |-> "u32"]}
    \cup {[form |-> "enum", type |-> ty] : ty \in {"u8", "u32"}}

LayoutFieldLists ==
  {[i \in DOMAIN shapes |-> Plain(ToString(i), shapes[i].form, shapes[i].type)] :
     shapes \in SeqsUpTo(LayoutFieldShapes, MaxLayoutFields)}

\* defineEnum({A: 0, B: 1}, "u8"); names are strings of code points
EnumAB == <<Entry(<<65>>, 0), Entry(<<66>>, 1)>>

FieldVariants ==
  {FieldDef("id", "prim", ty, NoEnum, FALSE, d, NoField) :
     ty \in {"u32", "u64"}, d \in {Undef, Num(9)}}
    \cup {FieldDef("name", "char*", "pointer", NoEnum, FALSE, d, l) :
            d \in {Undef, Str(<<233>>)}, l \in {NoField, "nameLen"}}
    \cup {FieldDef("nameLen", "prim", ty, NoEnum, FALSE, Undef, l) :
            ty \in {"u32", "u8"}, l \in {NoField, "name"}}
    \cup {FieldDef("tags", "array", ty, NoEnum, o, Undef, l) :
            ty \in {"u32", "u8"}, o \in BOOLEAN, l \in {NoField, "tagCount"}}
    \cup {FieldDef("tagCount", "prim", "u32", NoEnum, FALSE, Undef, l) :
            l \in {NoField, "tags"}}
    \cup {FieldDef("mode", "enum", "u8", EnumAB, FALSE, d, NoField) :
            d \in {Undef, Str(<<65>>)}}

\* [id: u32, name: char*, tags: [u32], tagCount: u32 lengthOf tags]
ScenarioStruct ==
  << Plain("id", "prim", "u32"),
     Plain("name", "char*", "pointer"),
     Plain("tags", "array", "u32"),
     FieldDef("tagCount", "prim", "u32", NoEnum, FALSE, Undef, "tags") >>

\* {id: 7, name: "abc", tags: [1, 2, 3]}
ScenarioValue ==
  [n \in {"id", "name", "tags"} |->
     CASE n = "id" -> Num(7)
       [] n = "name" -> Str(<<97, 98, 99>>)
       [] n = "tags" -> Arr(<<1, 2, 3>>)]

DistinctNames(fs) == \A i, j \in DOMAIN fs : fs[i].name = fs[j].name => i = j

StructDefs ==
  {fs \in SeqsUpTo(FieldVariants, MaxFields) : DistinctNames(fs)} \cup {ScenarioStruct}

\* the values a caller gives for a field; Undef is an absent key
InputChoices(name) ==
  CASE name = "id"       -> {Undef, Num(7)}
    [] name = "name"     -> {Undef, Str(<<>>), Str(<<97, 233>>)}
    [] name = "nameLen"  -> {Undef, Num(5)}
    [] name = "tags"     -> {Undef, Arr(<<>>), Arr(<<1, 2, 3>>)}
    [] name = "tagCount" -> {Undef, Num(5)}
    [] name = "mode"     -> {Undef, Str(<<66>>), Num(1), Str(<<67>>)}
    [] name = "u16"      -> {Num(0), Num(258), Num(65535)}
    [] name = "i16"      -> {Num(258), Num(-2), Num(-32768)}
    [] name = "u32"      -> {Num(1), Num(16909060), Num(2147483647)}
    [] name = "i32"      -> {Num(16909060), Num(-2), Num(-2147483647)}
    [] name = "u64"      -> {Num(258), Big(2147483647),
                             Big64(<<1, 0, 0, 0, 0, 0, 32, 0>>),
                             Big64(<<255, 255, 255, 255, 255, 255, 255, 255>>)}
    [] name = "bool_u32" -> {Num(0), Num(1), Bool(TRUE)}
    [] name = "pointer"  -> {Null, Num(258), Big(16909060)}
    [] name = "big"      -> {Arr(<<>>), Arr(<<258, 2147483647>>)}
    [] name = "bigCount" -> {Undef}
    [] name = "count"    -> {Undef, Null, Num(3)}
    [] name = "w8"       -> {Num(255), Num(256), Num(300), Num(-1)}
    [] name = "w16"      -> {Num(65535), Num(65537), Num(-2)}
    [] name = "w32"      -> {Num(7), Num(-1)}
    [] name = "text"     -> {Str(<<233>>), Str(LongText)}
    [] name = "textLen"  -> {Undef}
    [] name = "level"    -> {Undef, Num(3)}
    [] name = "label"    -> {Undef, Str(<<65>>)}

FieldNamesOf(fs) == {fs[i].name : i \in DOMAIN fs}

Inputs(fs) ==
  {inp \in [FieldNamesOf(fs) -> UNION {InputChoices(n) : n \in FieldNamesOf(fs)}] :
     \A n \in FieldNamesOf(fs) : inp[n] \in InputChoices(n)}
    \cup (IF fs = ScenarioStruct THEN {ScenarioValue} ELSE {})

\* what a read past the payload can find in native memory
GarbageBytes == {0, 65}

(***************************************************************************)
(* Specifications                                                          *)
(***************************************************************************)
vars == <<structVars, enumVars, ffiVars, callVars>>

NoCall == [op |-> "none"]

IdleStruct ==
  /\ options = NoOptions
  /\ layout = <<>> /\ size = 0 /\ input = <<>> /\ buffer = <<>>
  /\ heap = <<>> /\ out = <<>> /\ spc = "start"

IdleEnum == enumMapping = <<>> /\ enumCall = NoCall

IdleSymbols == logicalSymbols = <<>> /\ normalized = [legacy |-> None, canonical |-> None]

IdleDlopen ==
  /\ symbols = <<>> /\ lib = "none" /\ hostSymbols = None /\ symbolCall = NoCall
  /\ hostLibrary = [exists |-> TRUE, exports |-> {}] /\ libSymbols = None

IdleViews ==
  /\ denoArrayBufferViews = [b \in Buffers |-> None]
  /\ viewsCreated = [b \in Buffers |-> 0]

IdlePointer == ptrCall = NoCall /\ bufferCall = NoCall

NoBunFFI == [callback |-> FALSE, closeCallback |-> FALSE, handleClose |-> FALSE]

IdleCallback == bunFFI = NoBunFFI /\ trampolines = <<>> /\ jsCallbacks = <<>>

\* no hook throws
NoHook == <<"none", "none">>

IdleShim ==
  /\ suites = <<>> /\ throwingHook = NoHook /\ denoTests = <<>>
  /\ runner = [phase |-> "none", next |-> 1] /\ hookLog = <<>>

IdleCall == host = NoHost /\ call = NoCall /\ IdleCallback /\ IdleShim

IdleFfi ==
  /\ runtime = "bun" /\ hostHasOffset = FALSE
  /\ IdleSymbols /\ IdleDlopen /\ IdleViews /\ IdlePointer
  /\ IdleCall

InitLayout ==
  /\ pointerSize \in {4, 8}
  /\ fields \in LayoutFieldLists
  /\ IdleStruct /\ IdleEnum /\ IdleFfi

InitStruct ==
  /\ pointerSize \in {4, 8}
  /\ fields \in StructDefs
  /\ IdleStruct /\ IdleEnum /\ IdleFfi

\* defineStruct(fields)
DefineStruct ==
  /\ spc = "start"
  /\ layout' = defineStructLayout(fields, pointerSize)
  /\ size' = defineStructSize(defineStructLayout(fields, pointerSize), pointerSize)
  /\ spc' = "defined"
  /\ UNCHANGED <<pointerSize, fields, options, input, buffer, heap, out>>
  /\ UNCHANGED <<enumVars, ffiVars, callVars>>

\* struct.pack(value)
Pack ==
  /\ spc = "defined"
  /\ \E inp \in Inputs(fields) :
       LET value == IF options.reduceValue # NoField THEN [inner |-> inp] ELSE inp
           r     == pack(layout, size, reduceInput(options, value), pointerSize)
       IN
       /\ input' = value
       /\ IF r.threw
          THEN /\ spc' = "packThrew"
               /\ UNCHANGED <<buffer, heap>>
          ELSE /\ spc' = "packed"
               /\ buffer' = r.buf
               /\ heap' = r.allocated
  /\ UNCHANGED <<pointerSize, fields, options, layout, size, out>>
  /\ UNCHANGED <<enumVars, ffiVars, callVars>>

\* struct.unpack(buffer) of the buffer pack returned
Unpack ==
  /\ spc = "packed"
  /\ \E g \in GarbageBytes :
       LET r == unpack(buffer, layout, heap, g, pointerSize) IN
       IF r.threw
       THEN /\ spc' = "unpackThrew"
            /\ UNCHANGED out
       ELSE /\ spc' = "unpacked"
            /\ out' = r.out
  /\ UNCHANGED <<pointerSize, fields, options, layout, size, input, buffer, heap>>
  /\ UNCHANGED <<enumVars, ffiVars, callVars>>

(***************************************************************************)
(* Transform specification: structs whose fields have defaults and         *)
(* packTransform, with and without reduceValue; defineStruct, pack         *)
(***************************************************************************)
TransformFieldVariants ==
  {WithPackTransform(FieldDef("count", "prim", "u32", NoEnum, FALSE, d, NoField), tr) :
     d \in {Undef, Num(9)}, tr \in {NoField, "increment", "orSeven"}}
    \cup {WithPackTransform(FieldDef("level", "prim", "u8", NoEnum, FALSE, Num(9), NoField), tr) :
            tr \in {NoField, "increment"}}
    \cup {WithPackTransform(FieldDef("label", "char*", "pointer", NoEnum, FALSE, d, NoField), tr) :
            d \in {Undef, Str(<<66>>)}, tr \in {NoField, "increment", "orSeven"}}

TransformDefs ==
  {fs \in SeqsUpTo(TransformFieldVariants, MaxTransformFields) : DistinctNames(fs)}

InitTransform ==
  /\ pointerSize \in {4, 8}
  /\ fields \in TransformDefs
  /\ options \in {NoOptions, StructDefOptions("inner")}
  /\ layout = <<>> /\ size = 0 /\ input = <<>> /\ buffer = <<>>
  /\ heap = <<>> /\ out = <<>> /\ spc = "start"
  /\ IdleEnum /\ IdleFfi

NextTransform == DefineStruct \/ Pack

SpecTransform == InitTransform /\ [][NextTransform]_vars

(***************************************************************************)
(* Wrap specification: structs of unsigned fields given values beyond      *)
(* their range and of a text with a length field; defineStruct, pack       *)
(***************************************************************************)
WrapFieldVariants ==
  {Plain("w8", "prim", "u8"), Plain("w16", "prim", "u16"), Plain("w32", "prim", "u32"),
   Plain("text", "char*", "pointer")}
    \cup {FieldDef("textLen", "prim", ty, NoEnum, FALSE, Undef, "text") : ty \in {"u8", "u16"}}

WrapDefs == {fs \in SeqsUpTo(WrapFieldVariants, MaxWrapFields) : DistinctNames(fs)}

InitWrap ==
  /\ pointerSize \in {4, 8}
  /\ fields \in WrapDefs
  /\ IdleStruct /\ IdleEnum /\ IdleFfi

NextWrap == DefineStruct \/ Pack

SpecWrap == InitWrap /\ [][NextWrap]_vars

(***************************************************************************)
(* Scalar specification: structs of multi-byte scalars, named by their     *)
(* type, and of a u64 array with its count; defineStruct, pack, unpack     *)
(***************************************************************************)
MultiByteScalars == {"u16", "i16", "u32", "i32", "u64", "bool_u32", "pointer"}

ScalarFieldVariants ==
  {Plain(ty, "prim", ty) : ty \in MultiByteScalars}
    \cup {Plain("big", "array", "u64"),
          FieldDef("bigCount", "prim", "u8", NoEnum, FALSE, Undef, "big")}

ScalarDefs == {fs \in SeqsUpTo(ScalarFieldVariants, MaxScalarFields) : DistinctNames(fs)}

InitScalar ==
  /\ pointerSize \in {4, 8}
  /\ fields \in ScalarDefs
  /\ IdleStruct /\ IdleEnum /\ IdleFfi

(***************************************************************************)
(* List specification: defineStruct(fields), then pack or packList         *)
(***************************************************************************)
ListFieldVariants ==
  {Plain("id", "prim", "u32"),
   Plain("name", "char*", "pointer"),
   FieldDef("nameLen", "prim", "u32", NoEnum, FALSE, Undef, "name"),
   Plain("tags", "array", "u32"),
   FieldDef("tagCount", "prim", "u8", NoEnum, FALSE, Undef, "tags"),
   FieldDef("mode", "enum", "u8", EnumAB, FALSE, Undef, NoField)}

ListDefs == {fs \in SeqsUpTo(ListFieldVariants, MaxListFields) : DistinctNames(fs)}

ListInputChoices(name) ==
  CASE name = "id"       -> {Num(7)}
    [] name = "name"     -> {Undef, Str(<<97, 233>>)}
    [] name = "nameLen"  -> {Undef}
    [] name = "tags"     -> {Arr(<<>>), Arr(<<1, 2, 3>>)}
    [] name = "tagCount" -> {Undef}
    [] name = "mode"     -> {Str(<<66>>), Str(<<67>>)}

ListInputs(fs) ==
  {inp \in [FieldNamesOf(fs) -> UNION {ListInputChoices(n) : n \in FieldNamesOf(fs)}] :
     \A n \in FieldNamesOf(fs) : inp[n] \in ListInputChoices(n)}

ListValues(fs) == SeqsUpTo(ListInputs(fs), MaxListLen)

InitList ==
  /\ pointerSize \in {4, 8}
  /\ fields \in ListDefs
  /\ IdleStruct /\ IdleEnum /\ IdleFfi

\* struct.packList(values)
PackList ==
  /\ spc = "defined"
  /\ \E values \in ListValues(fields) :
       LET r == packList(values, layout, size, pointerSize) IN
       /\ input' = values
       /\ IF r.threw
          THEN /\ spc' = "packListThrew"
               /\ UNCHANGED <<buffer, heap>>
          ELSE /\ spc' = "listPacked"
               /\ buffer' = r.buf
               /\ heap' = r.refs
  /\ UNCHANGED <<pointerSize, fields, options, layout, size, out>>
  /\ UNCHANGED <<enumVars, ffiVars, callVars>>

\* struct.unpackList(buffer, count) of the buffer packList returned, for a
\* count the buffer has the bytes for
UnpackList ==
  /\ spc = "listPacked"
  /\ \E count \in 0..Len(input), g \in GarbageBytes :
       LET r == unpackList(buffer, count, layout, size, heap, g, pointerSize) IN
       /\ call' = [op |-> "unpackList", count |-> count]
       /\ IF r.threw
          THEN /\ spc' = "unpackListThrew"
               /\ UNCHANGED out
          ELSE /\ spc' = "listUnpacked"
               /\ out' = r.out
  /\ UNCHANGED <<pointerSize, fields, options, layout, size, input, buffer, heap, host, cbVars, shimVars>>
  /\ UNCHANGED <<enumVars, ffiVars>>

(***************************************************************************)
(* Enum specification: defineEnum(mapping), then calls of to and from      *)
(***************************************************************************)
EnumNames == {<<65>>, <<66>>, <<67>>}     \* "A", "B", "C"

EnumMappings ==
  {m \in SeqsUpTo({Entry(n, v) : n \in EnumNames, v \in 0..MaxEnumValue}, MaxEnumEntries) :
     \A i, j \in DOMAIN m : m[i].name = m[j].name => i = j}

\* what a caller hands to EnumDef.to
EnumToArgs == {Str(n) : n \in EnumNames} \cup {Num(v) : v \in 0..(MaxEnumValue + 1)} \cup {Undef}

InitEnum ==
  /\ enumMapping \in EnumMappings
  /\ enumCall = NoCall
  /\ pointerSize = 8 /\ fields = <<>> /\ IdleStruct
  /\ IdleFfi

\* enumDef.to(value)
EnumTo ==
  /\ \E value \in EnumToArgs :
       enumCall' = [op |-> "to", arg |-> value, res |-> enumTo(enumMapping, value)]
  /\ UNCHANGED enumMapping
  /\ UNCHANGED <<structVars, ffiVars, callVars>>

\* enumDef.from(value)
EnumFrom ==
  /\ \E value \in 0..(MaxEnumValue + 1) :
       enumCall' = [op |-> "from", arg |-> Num(value), res |-> enumFrom(enumMapping, value)]
  /\ UNCHANGED enumMapping
  /\ UNCHANGED <<structVars, ffiVars, callVars>>

(***************************************************************************)
(* Symbol table specification: one logical table, normalized from its      *)
(* legacy form {args, returns} and its canonical form {parameters, result} *)
(***************************************************************************)
ArgTypes == {"ptr", "pointer", "u32"}
RetTypes == {"void", "ptr", "pointer", "u32"}

Optional(S) == {None} \cup {Some(x) : x \in S}

LogicalDefs ==
  [types : Optional(SeqsUpTo(ArgTypes, MaxArgs)),
   ret   : Optional(RetTypes),
   nb    : Optional(BOOLEAN)]

LogicalTables ==
  {<<>>}
    \cup {("f" :> d) : d \in LogicalDefs}
    \cup {("f" :> d) @@ ("g" :> [types |-> Some(<<"ptr">>), ret |-> None, nb |-> None]) :
            d \in LogicalDefs}

LegacyForm(d)    == SymbolDefinition(d.types, None, d.ret, None, d.nb)
CanonicalForm(d) == SymbolDefinition(None, d.types, None, d.ret, d.nb)

FormOf(table, form) ==
  [name \in DOMAIN table |->
     IF form = "legacy" THEN LegacyForm(table[name]) ELSE CanonicalForm(table[name])]

IdleNotFfi == pointerSize = 8 /\ fields = <<>> /\ IdleStruct /\ IdleEnum /\ IdleCall

InitSymbols ==
  /\ runtime \in {"bun", "deno"}
  /\ hostHasOffset = FALSE
  /\ logicalSymbols \in LogicalTables
  /\ normalized = [legacy |-> None, canonical |-> None]
  /\ IdleDlopen /\ IdleViews /\ IdlePointer
  /\ IdleNotFfi

\* normalizeSymbolsForRuntime(table in the given form, runtime)
NormalizeSymbols(form) ==
  /\ ~normalized[form].has
  /\ normalized' = [normalized EXCEPT
                      ![form] = Some(normalizeSymbolsForRuntime(FormOf(logicalSymbols, form),
                                                                 runtime))]
  /\ UNCHANGED <<runtime, hostHasOffset, logicalSymbols, symbols, lib, hostSymbols,
                 hostLibrary, libSymbols,
                 symbolCall, denoArrayBufferViews, viewsCreated, ptrCall, bufferCall>>
  /\ UNCHANGED <<structVars, enumVars, callVars>>

NormalizeLegacy == NormalizeSymbols("legacy")

NormalizeCanonical == NormalizeSymbols("canonical")

(***************************************************************************)
(* dlopen specification: dlopen(path, symbols), calls of the returned      *)
(* symbols, close                                                          *)
(***************************************************************************)
\* definitions in the legacy form, the canonical form, both and neither
DlopenDefs ==
  {SymbolDefinition(Some(<<"ptr", "u32">>), None, Some("void"), None, None),
   SymbolDefinition(None, Some(<<"u32", "pointer">>), None, Some("void"), None),
   SymbolDefinition(None, Some(<<"pointer", "ptr">>), None, Some("u32"), Some(TRUE)),
   SymbolDefinition(Some(<<"u32">>), None, None, None, None),
   SymbolDefinition(Some(<<"ptr">>), Some(<<"u32">>), None, None, None),
   SymbolDefinition(None, None, None, None, None)}

DlopenTables ==
  {<<>>}
    \cup {("f" :> d) : d \in DlopenDefs}
    \cup {("f" :> SymbolDefinition(Some(<<"u32">>), None, None, None, None))
            @@ ("g" :> SymbolDefinition(Some(<<"buffer", "pointer">>), None, None, None, None))}

\* what a caller passes to a symbol; an argument left out is undefined
ArgValues == {Null, Num(1), ArrayBuffer("b0"), ArrayBuffer("b1"), View("b1", 0)}

CallArgs == SeqsUpTo(ArgValues, MaxCallArgs)

\* the library files a path may name: a missing file, a library exporting
\* every name used here, a library that lacks "g"
HostLibraries ==
  {[exists |-> FALSE, exports |-> {"f", "g"}],
   [exists |-> TRUE,  exports |-> {"f", "g"}],
   [exists |-> TRUE,  exports |-> {"f"}]}

InitDlopen ==
  /\ runtime \in {"bun", "deno"}
  /\ hostHasOffset = FALSE
  /\ symbols \in DlopenTables
  /\ hostLibrary \in HostLibraries
  /\ lib = "none" /\ hostSymbols = None /\ libSymbols = None /\ symbolCall = NoCall
  /\ IdleSymbols /\ IdleViews /\ IdlePointer
  /\ IdleNotFfi

\* dlopen(path, symbols)
Dlopen ==
  /\ lib = "none"
  /\ LET r == dlopen(hostLibrary, symbols, runtime) IN
       /\ hostSymbols' = Some(r.handed)
       /\ lib' = IF r.threw THEN "failed" ELSE "open"
       /\ libSymbols' = IF r.threw THEN None ELSE Some(r.symbols)
  /\ UNCHANGED <<runtime, hostHasOffset, logicalSymbols, normalized, symbols, symbolCall,
                 hostLibrary, denoArrayBufferViews, viewsCreated, ptrCall, bufferCall>>
  /\ UNCHANGED <<structVars, enumVars, callVars>>

ViewsBelowCap == \A b \in Buffers : viewsCreated[b] < MaxViews

\* lib.symbols[name](...args): Bun's symbols are the host's own, Deno's are
\* the wrappers of wrapDenoSymbols
CallSymbol ==
  /\ lib = "open"
  /\ ViewsBelowCap
  /\ \E name \in DOMAIN libSymbols.v, args \in CallArgs :
       IF libSymbols.v[name] = "native"
       THEN /\ symbolCall' = [op |-> "call", name |-> name, args |-> args,
                              status |-> "invoked", native |-> args]
            /\ UNCHANGED <<denoArrayBufferViews, viewsCreated>>
       ELSE LET r == wrappedCall(symbols[name], args, runtime,
                                 denoArrayBufferViews, viewsCreated)
            IN /\ symbolCall' = [op |-> "call", name |-> name, args |-> args,
                                 status |-> IF r.threw THEN "threw" ELSE "invoked",
                                 native |-> IF r.threw THEN <<>> ELSE r.args]
               /\ denoArrayBufferViews' = r.views
               /\ viewsCreated' = r.created
  /\ UNCHANGED <<runtime, hostHasOffset, logicalSymbols, normalized, symbols, lib,
                 hostSymbols, hostLibrary, libSymbols, ptrCall, bufferCall>>
  /\ UNCHANGED <<structVars, enumVars, callVars>>

\* the close() of the object dlopen returned
CloseLibrary ==
  /\ lib = "open"
  /\ lib' = "closed"
  /\ UNCHANGED <<runtime, hostHasOffset, logicalSymbols, normalized, symbols, hostSymbols,
                 hostLibrary, libSymbols,
                 symbolCall, denoArrayBufferViews, viewsCreated, ptrCall, bufferCall>>
  /\ UNCHANGED <<structVars, enumVars, callVars>>

(***************************************************************************)
(* Pointer specification: ptr() and toArrayBuffer() calls                  *)
(***************************************************************************)
PtrArgs == {ArrayBuffer(b) : b \in Buffers} \cup {View(b, 0) : b \in Buffers}

Pointers == {Pointer(HostAddr(b)) : b \in {"b1", "b2"}}

InitPointer ==
  /\ runtime \in {"bun", "deno"}
  /\ hostHasOffset \in BOOLEAN
  /\ IdleViews /\ ptrCall = NoCall /\ bufferCall = NoCall
  /\ IdleSymbols /\ IdleDlopen
  /\ IdleNotFfi

\* ptr(value)
Ptr ==
  /\ ViewsBelowCap
  /\ \E value \in PtrArgs :
       LET r == ptr(value, runtime, denoArrayBufferViews, viewsCreated) IN
       /\ ptrCall' = [op |-> "ptr", arg |-> value, res |-> r.res, view |-> r.view,
                      cached |-> denoArrayBufferViews[value.buf].has]
       /\ denoArrayBufferViews' = r.views
       /\ viewsCreated' = r.created
  /\ UNCHANGED <<runtime, hostHasOffset, logicalSymbols, normalized, symbols, lib,
                 hostSymbols, hostLibrary, libSymbols, symbolCall, bufferCall>>
  /\ UNCHANGED <<structVars, enumVars, callVars>>

\* toArrayBuffer(pointer, byteOffset, byteLength)
ToArrayBuffer ==
  /\ \E pointer \in Pointers, byteOffset \in 0..MaxByteOffset,
        byteLength \in Optional(0..MaxByteLength), hostLength \in 0..MaxByteLength :
       LET r == toArrayBuffer(pointer, byteOffset, byteLength, runtime, hostHasOffset,
                              hostLength) IN
       bufferCall' = [op |-> "toArrayBuffer", pointer |-> pointer, byteOffset |-> byteOffset,
                      byteLength |-> byteLength, target |-> r.target, res |-> r.res]
  /\ UNCHANGED <<runtime, hostHasOffset, logicalSymbols, normalized, symbols, lib,
                 hostSymbols, hostLibrary, libSymbols, symbolCall, denoArrayBufferViews,
                 viewsCreated, ptrCall>>
  /\ UNCHANGED <<structVars, enumVars, callVars>>

(***************************************************************************)
(* Runtime specification: a host, then detectFfiRuntime() and              *)
(* getRuntimePlatformArch()                                                *)
(***************************************************************************)
Platforms == {"", "linux", "windows"}
Archs     == {"", "x64", "arm64", "x86_64", "aarch64"}

\* process, or Deno.build with os for platform
PlatformRecords ==
  {None} \cup {Some([platform |-> p, arch |-> a]) :
                 p \in Optional(Platforms), a \in Optional(Archs)}

BuildRecords ==
  {None} \cup {Some([os |-> p, arch |-> a]) :
                 p \in Optional(Platforms), a \in Optional(Archs)}

RuntimeHosts ==
  {Host(bun, deno, process) :
     bun \in {None, Some(BunGlobal(FALSE, FALSE)), Some(BunGlobal(TRUE, FALSE))},
     deno \in {None} \cup {Some(DenoGlobal(dl, build, "none")) :
                              dl \in BOOLEAN, build \in BuildRecords},
     process \in PlatformRecords}

InitRuntime ==
  /\ host \in RuntimeHosts
  /\ call = NoCall /\ IdleCallback /\ IdleShim
  /\ pointerSize = 8 /\ fields = <<>> /\ IdleStruct /\ IdleEnum
  /\ runtime = "bun" /\ hostHasOffset = FALSE
  /\ IdleSymbols /\ IdleDlopen /\ IdleViews /\ IdlePointer

\* detectFfiRuntime()
DetectFfiRuntime ==
  /\ call' = [op |-> "detectFfiRuntime", res |-> detectFfiRuntime(host)]
  /\ UNCHANGED <<host, cbVars, shimVars, structVars, enumVars, ffiVars>>

\* getRuntimePlatformArch()
GetRuntimePlatformArch ==
  /\ call' = [op |-> "getRuntimePlatformArch", res |-> getRuntimePlatformArch(host)]
  /\ UNCHANGED <<host, cbVars, shimVars, structVars, enumVars, ffiVars>>

(***************************************************************************)
(* Load specification: a host in which deno-ffi-structs.ts is loaded,      *)
(* which fixes pointerSize (line 38); then defineStruct and                *)
(* getRuntimePlatformArch()                                                *)
(***************************************************************************)
LoadHosts == {h \in RuntimeHosts : ~h.Bun.has}

LoadDefs ==
  {<<Plain("handle", "prim", "pointer")>>,
   <<Plain("flag", "prim", "u8"), Plain("name", "char*", "pointer")>>,
   <<Plain("items", "array", "u32"), Plain("flag", "prim", "u8")>>}

InitLoad ==
  /\ host \in LoadHosts
  /\ call = NoCall /\ IdleCallback /\ IdleShim
  /\ pointerSize = getPointerSize(host)
  /\ fields \in LoadDefs
  /\ IdleStruct /\ IdleEnum
  /\ runtime = "bun" /\ hostHasOffset = FALSE
  /\ IdleSymbols /\ IdleDlopen /\ IdleViews /\ IdlePointer

NextLoad == DefineStruct \/ GetRuntimePlatformArch

SpecLoad == InitLoad /\ [][NextLoad]_vars

(***************************************************************************)
(* ffi.ts: JSCallback                                                      *)
(***************************************************************************)
\* a callback handle of the host: the host operation that made it, its
\* pointer (ptr on Bun, pointer on Deno), whether it has a close method,
\* and the calls of the host's release operation for it (its close method
\* or Bun.FFI.closeCallback)
Trampoline(via, pointer, hasClose) ==
  [via |-> via, pointer |-> pointer, hasClose |-> hasClose, released |-> 0]

\* lines 193-199
toPointer(value) == IF value = Null THEN Threw("Error") ELSE Returned(value)

\* lines 306-358: getDenoFFI() throws unless Deno has dlopen and the
\* Unsafe* classes, which come with it
getDenoFFI(h) == IF h.Deno.has /\ h.Deno.v.dlopen THEN Returned("deno") ELSE Threw("Error")

\* lines 56-59, 67: the host operation the constructor creates the handle with
constructVia(rt, ffi) ==
  IF rt = "bun" THEN (IF ffi.callback THEN "callback" ELSE "JSCallback")
  ELSE "UnsafeCallback"

\* lines 48-71: new JSCallback(fn, signature), the handle being handle
\* number k of the host
construct(rt, k, trampoline) ==
  LET p == toPointer(trampoline.pointer) IN
  IF ~p.ok THEN p
  ELSE Returned([ptr       |-> p.v,
                 bunHandle  |-> IF rt = "bun" THEN Some(k) ELSE None,
                 denoHandle |-> IF rt = "bun" THEN None ELSE Some(k),
                 closes     |-> 0])

\* lines 73-84 calling only the close method of the handle
releasedByCloseHandleOnly(object, handles, ffi) ==
  IF object.bunHandle.has
  THEN (IF handles[object.bunHandle.v].hasClose THEN {object.bunHandle.v} ELSE {})
  ELSE IF object.denoHandle.has THEN {object.denoHandle.v} ELSE {}

\* lines 73-84: the handles close() invokes the host's release operation for
releasedByClose(object, handles, ffi) ==
  IF object.bunHandle.has
  THEN (IF handles[object.bunHandle.v].hasClose THEN {object.bunHandle.v}
        ELSE IF ffi.closeCallback THEN {object.bunHandle.v}
        ELSE {})
  ELSE IF object.denoHandle.has THEN {object.denoHandle.v} ELSE {}

(***************************************************************************)
(* Callback specification: a host, then JSCallback constructions and       *)
(* close() calls                                                           *)
(***************************************************************************)
CallbackHosts ==
  {Host(bun, deno, None) :
     bun \in {None, Some(BunGlobal(TRUE, FALSE))},
     deno \in {None, Some(DenoGlobal(TRUE, None, "none"))}}

\* Bun.FFI either has callback and closeCallback, the handles of callback
\* having a close method or not, or has neither; bun:ffi has JSCallback,
\* whose objects have close
BunFFIs ==
  {ffi \in [callback : BOOLEAN, closeCallback : BOOLEAN, handleClose : BOOLEAN] :
     /\ ffi.closeCallback = ffi.callback
     /\ ffi.handleClose => ffi.callback}

InitCallback ==
  /\ host \in CallbackHosts
  /\ bunFFI \in BunFFIs
  /\ host.Bun.has \/ bunFFI = NoBunFFI
  /\ trampolines = <<>> /\ jsCallbacks = <<>>
  /\ call = NoCall /\ IdleShim
  /\ pointerSize = 8 /\ fields = <<>> /\ IdleStruct /\ IdleEnum
  /\ runtime = "bun" /\ hostHasOffset = FALSE
  /\ IdleSymbols /\ IdleDlopen /\ IdleViews /\ IdlePointer

\* new JSCallback(fn, signature); the host gives the handle a pointer or null
NewJSCallback ==
  /\ Len(trampolines) < MaxCallbacks
  /\ LET rt == detectFfiRuntime(host) IN
     IF ~rt.ok \/ (rt.v = "deno" /\ ~getDenoFFI(host).ok)
     THEN /\ call' = [op |-> "new JSCallback", res |-> Threw("Error")]
          /\ UNCHANGED cbVars
     ELSE \E pointer \in {Null, Pointer(AddrOf(Len(trampolines) + 1))} :
            LET via     == constructVia(rt.v, bunFFI)
                handle  == Trampoline(via, pointer,
                                      IF via = "callback" THEN bunFFI.handleClose ELSE TRUE)
                made    == construct(rt.v, Len(trampolines) + 1, handle)
            IN /\ trampolines' = Append(trampolines, handle)
               /\ jsCallbacks' = IF made.ok THEN Append(jsCallbacks, made.v) ELSE jsCallbacks
               /\ call' = [op |-> "new JSCallback",
                           res |-> IF made.ok THEN Returned(Len(jsCallbacks) + 1) ELSE made]
               /\ UNCHANGED bunFFI
  /\ UNCHANGED <<host, shimVars, structVars, enumVars, ffiVars>>

\* callback.close()
Close ==
  /\ \E i \in 1..Len(jsCallbacks) :
       /\ jsCallbacks[i].closes < MaxCloses
       /\ LET released == releasedByClose(jsCallbacks[i], trampolines, bunFFI) IN
          /\ trampolines' = [k \in 1..Len(trampolines) |->
                               IF k \in released
                               THEN [trampolines[k] EXCEPT !.released = @ + 1]
                               ELSE trampolines[k]]
          /\ jsCallbacks' = [jsCallbacks EXCEPT ![i].closes = @ + 1]
          /\ call' = [op |-> "close", res |-> Returned(i)]
  /\ UNCHANGED <<host, bunFFI, shimVars, structVars, enumVars, ffiVars>>

NextCallback == NewJSCallback \/ Close

SpecCallback == InitCallback /\ [][NextCallback]_vars

(***************************************************************************)
(* Test shim (src/unnamed/part_001): suites, registerTestCase,             *)
(* runRegisteredTest and the hook runners                                  *)
(***************************************************************************)
\* the suites of a test file: describe("outer", () => describe("inner", ...))
\* under the root suite, each with one hook of every kind
SuiteNames == {"root", "outer", "inner"}

parentOf(name) ==
  CASE name = "root" -> NoField [] name = "outer" -> "root" [] name = "inner" -> "outer"

\* lines 56-70
createSuite(name, parent, skip, only) ==
  [name |-> name, parent |-> parent, skip |-> skip, only |-> only,
   beforeAllRan |-> FALSE, afterAllRan |-> FALSE, remainingTests |-> 0]

\* lines 76-85: the suite and its ancestors, root first
RECURSIVE getSuiteChain(_)
getSuiteChain(name) ==
  IF name = NoField THEN <<>> ELSE Append(getSuiteChain(parentOf(name)), name)

TestModes == [skip : BOOLEAN, only : BOOLEAN]

\* lines 97-112: the suite describe, describe.skip or describe.only creates
\* under the suite parent
registerDescribe(name, parent, mode) ==
  createSuite(name, parent.name, parent.skip \/ mode.skip, parent.only \/ mode.only)

\* a hook or a test callback that ran: its kind, its suite, the test it ran
\* for, whether it threw
HookEvent(kind, suite, test, threw) ==
  [kind |-> kind, suite |-> suite, test |-> test, threw |-> threw]

Throws(failing, kind, suite) == failing = <<kind, suite>>

\* lines 223-234, from suite k of the chain on; st holds the suites, the
\* log and whether a hook threw
RECURSIVE runBeforeAllHooks(_, _, _, _, _)
runBeforeAllHooks(st, chain, k, test, failing) ==
  IF k > Len(chain) THEN st
  ELSE IF st.suites[chain[k]].beforeAllRan
  THEN runBeforeAllHooks(st, chain, k + 1, test, failing)
  ELSE LET threw == Throws(failing, "beforeAll", chain[k])
           st1 == [st EXCEPT !.suites[chain[k]].beforeAllRan = TRUE,
                             !.log = Append(@, HookEvent("beforeAll", chain[k], test, threw)),
                             !.threw = threw]
       IN IF threw THEN st1 ELSE runBeforeAllHooks(st1, chain, k + 1, test, failing)

\* lines 236-242, from suite k of the chain on
RECURSIVE runBeforeEachHooks(_, _, _, _, _)
runBeforeEachHooks(st, chain, k, test, failing) ==
  IF k > Len(chain) THEN st
  ELSE LET threw == Throws(failing, "beforeEach", chain[k])
           st1 == [st EXCEPT !.log = Append(@, HookEvent("beforeEach", chain[k], test, threw)),
                             !.threw = threw]
       IN IF threw THEN st1 ELSE runBeforeEachHooks(st1, chain, k + 1, test, failing)

\* lines 244-251, from suite k of the chain down
RECURSIVE runAfterEachHooks(_, _, _, _, _)
runAfterEachHooks(st, chain, k, test, failing) ==
  IF k < 1 THEN st
  ELSE LET threw == Throws(failing, "afterEach", chain[k])
           st1 == [st EXCEPT !.log = Append(@, HookEvent("afterEach", chain[k], test, threw)),
                             !.threw = threw]
       IN IF threw THEN st1 ELSE runAfterEachHooks(st1, chain, k - 1, test, failing)

\* lines 253-265, from suite k of the chain down
RECURSIVE runAfterAllHooks(_, _, _, _, _)
runAfterAllHooks(st, chain, k, test, failing) ==
  IF k < 1 THEN st
  ELSE LET suite == st.suites[chain[k]] IN
       IF suite.afterAllRan \/ ~suite.beforeAllRan \/ suite.remainingTests # 0
       THEN runAfterAllHooks(st, chain, k - 1, test, failing)
       ELSE LET threw == Throws(failing, "afterAll", chain[k])
                st1 == [st EXCEPT !.suites[chain[k]].afterAllRan = TRUE,
                                  !.log = Append(@, HookEvent("afterAll", chain[k], test, threw)),
                                  !.threw = threw]
            IN IF threw THEN st1 ELSE runAfterAllHooks(st1, chain, k - 1, test, failing)

\* lines 203-207
RECURSIVE decrementRemaining(_, _, _)
decrementRemaining(ss, chain, k) ==
  IF k > Len(chain) THEN ss
  ELSE decrementRemaining(
         IF ss[chain[k]].remainingTests > 0
         THEN [ss EXCEPT ![chain[k]].remainingTests = @ - 1] ELSE ss,
         chain, k + 1)

\* lines 166-221: the suites and the log after the test ran
runRegisteredTest(ss, log, test, chain, failing) ==
  LET st0 == [suites |-> ss, log |-> log, threw |-> FALSE]
      st1 == runBeforeAllHooks(st0, chain, 1, test, failing)
      st2 == IF st1.threw THEN st1 ELSE runBeforeEachHooks(st1, chain, 1, test, failing)
      beforeEachCompleted == ~st2.threw
      st3 == IF beforeEachCompleted
             THEN [st2 EXCEPT !.log = Append(@, HookEvent("callback", chain[Len(chain)], test, FALSE))]
             ELSE st2
      st4 == IF beforeEachCompleted
             THEN runAfterEachHooks(st3, chain, Len(chain), test, failing) ELSE st3
      st5 == [st4 EXCEPT !.suites = decrementRemaining(@, chain, 1)]
  IN runAfterAllHooks(st5, chain, Len(chain), test, failing)

\* lines 144-151: the suites after a test was registered
RECURSIVE incrementRemaining(_, _, _)
incrementRemaining(ss, chain, k) ==
  IF k > Len(chain) THEN ss
  ELSE incrementRemaining([ss EXCEPT ![chain[k]].remainingTests = @ + 1], chain, k + 1)

\* Deno runs a test unless it is ignored or, when a test is registered with
\* only, it is not one of those
DenoRuns(tests, i) ==
  /\ ~tests[i].ignore
  /\ (\E j \in 1..Len(tests) : tests[j].only) => tests[i].only

(***************************************************************************)
(* Shim specification: a test file whose suites are described, then        *)
(* test / test.only / test.skip calls, then Deno's run of the tests        *)
(***************************************************************************)
HookKinds == {"beforeAll", "beforeEach", "afterEach", "afterAll"}

InitShim ==
  /\ \E outerMode, innerMode \in TestModes :
       LET root  == createSuite("root", NoField, FALSE, FALSE)
           outer == registerDescribe("outer", root, outerMode)
           inner == registerDescribe("inner", outer, innerMode)
       IN suites = [n \in SuiteNames |->
                      CASE n = "root" -> root [] n = "outer" -> outer [] n = "inner" -> inner]
  /\ throwingHook \in {NoHook} \cup (HookKinds \X SuiteNames)
  /\ denoTests = <<>>
  /\ runner = [phase |-> "register", next |-> 1]
  /\ hookLog = <<>>
  /\ host = NoHost /\ call = NoCall /\ IdleCallback
  /\ pointerSize = 8 /\ fields = <<>> /\ IdleStruct /\ IdleEnum
  /\ runtime = "bun" /\ hostHasOffset = FALSE
  /\ IdleSymbols /\ IdleDlopen /\ IdleViews /\ IdlePointer

\* test(name, callback), test.only, test.skip inside the describe of a suite
RegisterTestCase ==
  /\ runner.phase = "register"
  /\ Len(denoTests) < MaxTests
  /\ \E currentSuite \in SuiteNames, mode \in TestModes :
       LET ignore == suites[currentSuite].skip \/ mode.skip
           only   == ~ignore /\ (suites[currentSuite].only \/ mode.only)
           chain  == getSuiteChain(currentSuite)
       IN /\ suites' = IF ignore THEN suites ELSE incrementRemaining(suites, chain, 1)
          /\ denoTests' = Append(denoTests, [suite |-> currentSuite, ignore |-> ignore, only |-> only])
  /\ UNCHANGED <<throwingHook, runner, hookLog>>
  /\ UNCHANGED <<host, call, cbVars, structVars, enumVars, ffiVars>>

\* the test file is loaded: Deno starts to run the registered tests
StartRun ==
  /\ runner.phase = "register"
  /\ runner' = [phase |-> "run", next |-> 1]
  /\ UNCHANGED <<suites, throwingHook, denoTests, hookLog>>
  /\ UNCHANGED <<host, call, cbVars, structVars, enumVars, ffiVars>>

\* Deno calls the fn of the next test it runs: runRegisteredTest
RunRegisteredTest ==
  /\ runner.phase = "run"
  /\ runner.next <= Len(denoTests)
  /\ DenoRuns(denoTests, runner.next)
  /\ LET r == runRegisteredTest(suites, hookLog, runner.next,
                                 getSuiteChain(denoTests[runner.next].suite), throwingHook)
     IN /\ suites' = r.suites
        /\ hookLog' = r.log
  /\ runner' = [runner EXCEPT !.next = @ + 1]
  /\ UNCHANGED <<throwingHook, denoTests>>
  /\ UNCHANGED <<host, call, cbVars, structVars, enumVars, ffiVars>>

\* Deno passes over a test that is ignored or deselected by only
SkipTest ==
  /\ runner.phase = "run"
  /\ runner.next <= Len(denoTests)
  /\ ~DenoRuns(denoTests, runner.next)
  /\ runner' = [runner EXCEPT !.next = @ + 1]
  /\ UNCHANGED <<suites, throwingHook, denoTests, hookLog>>
  /\ UNCHANGED <<host, call, cbVars, structVars, enumVars, ffiVars>>

NextShim == RegisterTestCase \/ StartRun \/ RunRegisteredTest \/ SkipTest

SpecShim == InitShim /\ [][NextShim]_vars

(***************************************************************************)
(* Pointer value specification: a host, then pointerToBigInt(pointer)      *)
(***************************************************************************)
PointerAddrs == {0, 1, 256, 512}

PointerValues ==
  {Undef, Null, Fraction, PlainObject, Bool(TRUE), Str(<<49>>)}
    \cup {Num(a) : a \in PointerAddrs}
    \cup {Big(a) : a \in PointerAddrs}
    \cup {Handle(a) : a \in PointerAddrs}

PointerHosts ==
  {Host(bun, deno, None) :
     bun \in {None, Some(BunGlobal(TRUE, FALSE))},
     deno \in {None} \cup {Some(DenoGlobal(TRUE, None, value)) :
                              value \in {"none", "number", "bigint"}}}

InitPointerValue ==
  /\ host \in PointerHosts
  /\ call = NoCall /\ IdleCallback /\ IdleShim
  /\ pointerSize = 8 /\ fields = <<>> /\ IdleStruct /\ IdleEnum
  /\ runtime = "bun" /\ hostHasOffset = FALSE
  /\ IdleSymbols /\ IdleDlopen /\ IdleViews /\ IdlePointer

\* pointerToBigInt(pointer)
PointerToBigInt ==
  /\ \E pointer \in PointerValues :
       call' = [op |-> "pointerToBigInt", arg |-> pointer,
                res |-> pointerToBigInt(pointer, host)]
  /\ UNCHANGED <<host, cbVars, shimVars, structVars, enumVars, ffiVars>>

(***************************************************************************)
(* Width specification: a host, then stringWidth(text)                     *)
(***************************************************************************)
Texts == SeqsUpTo(CodePoints, MaxTextLen)

WidthHosts ==
  {Host(bun, None, None) :
     bun \in {None, Some(BunGlobal(TRUE, FALSE)), Some(BunGlobal(TRUE, TRUE))}}

InitWidth ==
  /\ host \in WidthHosts
  /\ call = NoCall /\ IdleCallback /\ IdleShim
  /\ pointerSize = 8 /\ fields = <<>> /\ IdleStruct /\ IdleEnum
  /\ runtime = "bun" /\ hostHasOffset = FALSE
  /\ IdleSymbols /\ IdleDlopen /\ IdleViews /\ IdlePointer

\* what Bun.stringWidth can answer, when the host has it
NativeWidths ==
  IF host.Bun.has /\ host.Bun.v.stringWidth THEN 0..(2 * MaxTextLen) ELSE {0}

\* stringWidth(text), the first call of a behaviour
StringWidth ==
  /\ call = NoCall
  /\ \E text \in Texts, nativeWidth \in NativeWidths :
       call' = [op |-> "stringWidth", arg |-> text,
                res |-> stringWidth(text, host, nativeWidth)]
  /\ UNCHANGED <<host, cbVars, shimVars, structVars, enumVars, ffiVars>>

NextWidth == StringWidth

SpecWidth == InitWidth /\ [][NextWidth]_vars

NextRuntime == DetectFfiRuntime \/ GetRuntimePlatformArch

NextPointerValue == PointerToBigInt

SpecRuntime == InitRuntime /\ [][NextRuntime]_vars

SpecPointerValue == InitPointerValue /\ [][NextPointerValue]_vars

NextLayout == DefineStruct

NextStruct == DefineStruct \/ Pack \/ Unpack

NextScalar == DefineStruct \/ Pack \/ Unpack

NextList == DefineStruct \/ Pack \/ PackList \/ UnpackList

NextEnum == EnumTo \/ EnumFrom

NextSymbols == NormalizeLegacy \/ NormalizeCanonical

NextDlopen == Dlopen \/ CallSymbol \/ CloseLibrary

NextPointer == Ptr \/ ToArrayBuffer

SpecLayout == InitLayout /\ [][NextLayout]_vars

SpecStruct == InitStruct /\ [][NextStruct]_vars

SpecScalar == InitScalar /\ [][NextScalar]_vars

SpecList == InitList /\ [][NextList]_vars

SpecEnum == InitEnum /\ [][NextEnum]_vars

SpecSymbols == InitSymbols /\ [][NextSymbols]_vars

SpecDlopen == InitDlopen /\ [][NextDlopen]_vars

SpecPointer == InitPointer /\ [][NextPointer]_vars

(***************************************************************************)
(* Claims about the struct engine                                          *)
(***************************************************************************)
\* the value a field is packed from: the caller's, else the declared default
GivenValue(entry) ==
  IF inputGet(input, entry.name).t # "undefined" THEN inputGet(input, entry.name)
  ELSE entry.defaultValue

IsLengthField(entry) ==
  entry.kind \in {"primitive", "enum"} /\ entry.lengthOf # NoField

\* the same logical value: a string by its code points, an array by its
\* elements, a number by its integer, an enum by its mapping entry
SameLogicalValue(entry, given, got) ==
  CASE entry.kind = "char_ptr"  -> got.t = "string" /\ got.s = ToStr(given)
    [] entry.kind = "array"     -> got.t = "array" /\ got.a = given.a
    [] entry.kind = "primitive" -> got.t \in {"number", "bigint"} /\ got.n = given.n
    [] entry.kind = "enum"      ->
         /\ got.t = "string"
         /\ enumTo(entry.enumDef, got) = enumTo(entry.enumDef, given)

\* C1: unpack(pack(value)) reproduces the logical value of every field the
\* value or a declared default gives (strings, arrays, enums, numbers),
\* zero-length strings and arrays included.
C1_RoundTrip ==
  spc = "unpacked" =>
    \A i \in 1..Len(layout) :
      (~IsLengthField(layout[i]) /\ GivenValue(layout[i]).t # "undefined")
        => SameLogicalValue(layout[i], GivenValue(layout[i]), outGet(out, layout[i].name))

\* the payload pack wrote for a string or array field, read back through the
\* pointer stored in the struct
WrittenPayload(entry) ==
  LET pointer == readPrimitive(buffer, "pointer", entry.offset, pointerSize).n
  IN IF pointer = 0 THEN <<>> ELSE payloadAt(heap, pointer)

WrittenCount(entry) ==
  IF entry.kind = "char_ptr" THEN Len(WrittenPayload(entry))
  ELSE Len(WrittenPayload(entry)) \div primitiveSizes(pointerSize)[entry.type]

\* C2: a primitive or enum field declared lengthOf a string (array) field
\* packs to the UTF-8 byte length (element count) of the payload pack wrote
\* for that field, whatever the caller supplied for the length field.
C2_DerivedLength ==
  spc = "packed" =>
    \A i, j \in 1..Len(layout) :
      (/\ IsLengthField(layout[i])
       /\ layout[j].name = layout[i].lengthOf
       /\ layout[j].kind \in {"char_ptr", "array"})
        => ToInteger(readPrimitive(buffer, layout[i].type, layout[i].offset, pointerSize))
             = WrittenCount(layout[j])

\* {id: 7, name: "abc", tags: [1, 2, 3], tagCount: 3}
ScenarioResult ==
  [n \in {"id", "name", "tags", "tagCount"} |->
     CASE n = "id" -> Num(7)
       [] n = "name" -> Str(<<97, 98, 99>>)
       [] n = "tags" -> Arr(<<1, 2, 3>>)
       [] n = "tagCount" -> Num(3)]

\* C3: the struct [id: u32, name: char*, tags: [u32], tagCount: u32 lengthOf
\* tags] packed with {id: 7, name: "abc", tags: [1, 2, 3]} unpacks to
\* {id: 7, name: "abc", tags: [1, 2, 3], tagCount: 3}.
C3_Scenario ==
  (spc = "unpacked" /\ fields = ScenarioStruct /\ input = ScenarioValue)
    => out = ScenarioResult

\* C4: every field of a struct defineStruct builds has
\* offset % min(size, pointerWidth) = 0 and the struct size is a multiple of
\* the pointer width, for pointer width 4 and 8 and for the empty field list.
C4_Alignment ==
  spc = "defined" =>
    /\ \A i \in 1..Len(layout) :
         layout[i].offset % Min(layout[i].size, pointerSize) = 0
    /\ size % pointerSize = 0
    /\ Len(layout) = Len(fields)

\* a struct in which a field had to be moved up to its alignment and the
\* size had to be padded
C4_Witness ==
  /\ spc = "defined"
  /\ \E i \in 2..Len(layout) :
       layout[i].offset > layout[i - 1].offset + layout[i - 1].size
  /\ size > endOffset(layout)

(***************************************************************************)
(* Claims about defineEnum                                                 *)
(***************************************************************************)
DeclaredName(name)   == \E i \in 1..Len(enumMapping) : enumMapping[i].name = name
DeclaredValue(value) == \E i \in 1..Len(enumMapping) : enumMapping[i].value = value

\* C5: for every declared mapping entry (name, v) of an EnumDef that
\* defineEnum returned, to(name) = v and from(v) = name.
C5_EnumInverse ==
  \A i \in 1..Len(enumMapping) :
    /\ (enumCall.op = "to" /\ enumCall.arg = Str(enumMapping[i].name))
         => enumCall.res = Returned(enumMapping[i].value)
    /\ (enumCall.op = "from" /\ enumCall.arg = Num(enumMapping[i].value))
         => enumCall.res = Returned(enumMapping[i].name)

\* C6: to fails for every input that is not a declared entry of the mapping
\* and from fails for every number that is not a declared value; neither
\* returns a value for an input outside the mapping.
C6_EnumErrors ==
  /\ (/\ enumCall.op = "to"
      /\ ~(enumCall.arg.t = "string" /\ DeclaredName(enumCall.arg.s))
      /\ ~(enumCall.arg.t = "number" /\ DeclaredValue(enumCall.arg.n)))
       => enumCall.res = Threw("TypeError")
  /\ (enumCall.op = "from" /\ ~DeclaredValue(enumCall.arg.n))
       => enumCall.res = Threw("TypeError")

(***************************************************************************)
(* Claims about the FFI shim                                               *)
(***************************************************************************)
\* C7: for either runtime tag, normalizeSymbolsForRuntime produces the same
\* normalized entries (argument types, return type, nonblocking flag) for
\* the legacy form and the canonical form of one logical table; a table
\* with zero entries normalizes to an empty table.
C7_FormsAgree ==
  /\ (normalized.legacy.has /\ normalized.canonical.has)
       => normalized.legacy.v = normalized.canonical.v
  /\ \A form \in {"legacy", "canonical"} :
       normalized[form].has => DOMAIN normalized[form].v = DOMAIN logicalSymbols

\* both forms of a table with a pointer parameter, a return type and a
\* nonblocking flag were normalized, and so were both forms of the empty table
C7_Witness ==
  /\ normalized.legacy.has /\ normalized.canonical.has
  /\ "f" \in DOMAIN logicalSymbols
  /\ logicalSymbols["f"].types = Some(<<"ptr", "u32">>)
  /\ logicalSymbols["f"].ret = Some("pointer")
  /\ logicalSymbols["f"].nb = Some(TRUE)
  /\ runtime = "deno"

\* the parameter types a definition declares, in whichever form it gives them
DeclaredTypes(definition) ==
  IF definition.parameters.has THEN definition.parameters.v
  ELSE IF definition.args.has THEN definition.args.v
  ELSE <<>>

DeclaredPointer(definition, i) ==
  i \in DOMAIN DeclaredTypes(definition) /\ DeclaredTypes(definition)[i] \in {"ptr", "pointer"}

\* C8: on Deno, a call of a symbol dlopen returned passes the native symbol
\* ptr(arg) at every index declared 'ptr' or 'pointer' whose argument is an
\* ArrayBuffer or a view, and every other argument unchanged, in the same
\* position and with the same argument count; the call fails only when
\* ptr(arg) fails.
C8_PointerCoercion ==
  (runtime = "deno" /\ symbolCall.op = "call") =>
    LET definition == symbols[symbolCall.name]
        args       == symbolCall.args
        coerced(i) == DeclaredPointer(definition, i) /\ IsBufferLike(args[i])
    IN /\ symbolCall.status = "invoked" =>
            /\ Len(symbolCall.native) = Len(args)
            /\ \A i \in 1..Len(args) :
                 symbolCall.native[i] =
                   IF coerced(i) THEN Pointer(HostAddr(args[i].buf)) ELSE args[i]
       /\ symbolCall.status = "threw" =>
            \E i \in 1..Len(args) : coerced(i) /\ ~hostPointerOf(args[i]).has

\* a Deno call in which a buffer at a 'pointer' index became a pointer and
\* a buffer at an index that is not a pointer went through unchanged
C8_Witness ==
  /\ runtime = "deno" /\ symbolCall.op = "call" /\ symbolCall.status = "invoked"
  /\ symbols[symbolCall.name].parameters = Some(<<"u32", "pointer">>)
  /\ symbolCall.args = <<ArrayBuffer("b1"), View("b1", 0)>>
  /\ symbolCall.native = <<ArrayBuffer("b1"), Pointer(HostAddr("b1"))>>

\* C9: on Deno, at most one typed view is ever created for an ArrayBuffer,
\* and every ptr(buffer) call for it takes its address from that one view,
\* so repeated calls return the same address.
C9_StableView ==
  runtime = "deno" =>
    \A b \in Buffers :
      /\ viewsCreated[b] <= 1
      /\ (ptrCall.op = "ptr" /\ ptrCall.arg = ArrayBuffer(b)) =>
           /\ ptrCall.view = Some(View(b, 1))
           /\ denoArrayBufferViews[b] = Some(View(b, 1))
           /\ ptrCall.res.ok => ptrCall.res.v = Pointer(HostAddr(b))

\* a repeated ptr() call for an ArrayBuffer that was already in the WeakMap
C9_Witness ==
  /\ runtime = "deno"
  /\ ptrCall.op = "ptr" /\ ptrCall.arg = ArrayBuffer("b1")
  /\ ptrCall.cached
  /\ ptrCall.res = Returned(Pointer(HostAddr("b1")))

\* C10: toArrayBuffer applies pointer offset arithmetic only when
\* byteOffset > 0 and the host supports it; with byteOffset > 0 on a host
\* without a pointer-offset operation the call fails instead of returning
\* bytes.
C10_OffsetUnsupported ==
  (bufferCall.op = "toArrayBuffer" /\ runtime = "deno") =>
    /\ bufferCall.byteOffset = 0 => bufferCall.target = bufferCall.pointer.addr
    /\ (bufferCall.byteOffset > 0 /\ hostHasOffset)
         => bufferCall.target = bufferCall.pointer.addr + bufferCall.byteOffset
    /\ (bufferCall.byteOffset > 0 /\ ~hostHasOffset) => ~bufferCall.res.ok

(***************************************************************************)
(* Claims about loading, pointers and the runtime                          *)
(***************************************************************************)
LoaderFails == ~hostLibrary.exists \/ ~(DOMAIN symbols \subseteq hostLibrary.exports)

\* C11: dlopen is all-or-nothing: when the host loader fails (missing file
\* or a declared symbol the library lacks) dlopen throws and returns no
\* object, and an object it does return holds every declared name, never a
\* part of them.
C11_AllOrNothing ==
  lib # "none" =>
    /\ LoaderFails => (lib = "failed" /\ ~libSymbols.has)
    /\ libSymbols.has => DOMAIN libSymbols.v = DOMAIN symbols

\* a library that exists but lacks a declared symbol made dlopen fail
C11_Witness ==
  /\ lib = "failed" /\ ~libSymbols.has
  /\ hostLibrary.exists
  /\ DOMAIN symbols = {"f", "g"}

\* the pointer stored for a string or array field of the struct that starts
\* at byte `base` of the buffer
StoredPointer(base, entry) ==
  readPrimitive(buffer, "pointer", base + entry.offset, pointerSize).n

\* a buffer of _refs has its memory at the address
Retained(addr) == \E k \in DOMAIN heap : heap[k].addr = addr

PayloadFields == {i \in 1..Len(layout) : layout[i].kind \in {"char_ptr", "array"}}

\* the structs of the returned buffer: one for pack, one per element for
\* packList
PackedStructs ==
  IF spc = "packed" THEN {0}
  ELSE IF spc \in {"listPacked", "listUnpacked"} THEN {(e - 1) * size : e \in 1..Len(input)}
  ELSE {}

\* C12: the buffer pack returns retains every payload buffer whose pointer
\* it wrote, one per non-empty string or array field, and the buffer
\* packList returns retains those of every element (and each element's
\* packed struct): every non-null pointer stored for a string or array
\* field is the address of a buffer in _refs.
C12_PayloadRetention ==
  /\ \A base \in PackedStructs : \A i \in PayloadFields :
       StoredPointer(base, layout[i]) # 0 => Retained(StoredPointer(base, layout[i]))
  /\ Cardinality({k \in DOMAIN heap : heap[k].addr # 0})
       = Cardinality({bi \in PackedStructs \X PayloadFields :
                        StoredPointer(bi[1], layout[bi[2]]) # 0})
  /\ spc \in {"listPacked", "listUnpacked"} =>
       \A e \in 1..Len(input) :
         \E k \in DOMAIN heap :
           heap[k] = Payload(0, SubSeq(buffer, (e - 1) * size + 1, e * size))

\* packList of two values that each carry a string and a non-empty array
C12_Witness ==
  /\ spc = "listPacked"
  /\ Len(input) = 2
  /\ Cardinality(PayloadFields) = 2
  /\ \A base \in PackedStructs : \A i \in PayloadFields :
       StoredPointer(base, layout[i]) # 0

\* the length field unpack associates with a string or array field holds a
\* nonzero value in the buffer
HoldsNonzeroLength(entry) ==
  LET lenField == lengthFieldOf(entry, layout) IN
  /\ lenField # NoField
  /\ byNameHas(layout, lenField)
  /\ ToInteger(readPrimitive(buffer, byNameGet(layout, lenField).type,
                             byNameGet(layout, lenField).offset, pointerSize)) # 0

\* C13: unpack throws (NullPointerDereference) when a string or array
\* field's stored pointer is null while its length field holds a nonzero
\* length; it returns no structured value for such a buffer.
C13_NullPointer ==
  spc = "unpacked" =>
    \A i \in PayloadFields :
      ~(StoredPointer(0, layout[i]) = 0 /\ HoldsNonzeroLength(layout[i]))

\* the address a pointer representation stands for
IsRecognized(pointer, h) ==
  \/ pointer.t \in {"number", "bigint"}
  \/ pointer.t = "handle" /\ h.Deno.has /\ h.Deno.v.value # "none"

AddressOf(pointer) == IF pointer.t = "handle" THEN pointer.addr ELSE pointer.n

HasBunFFI == host.Bun.has /\ host.Bun.v.FFI
HasDenoDlopen == host.Deno.has /\ host.Deno.v.dlopen

\* C15: detectFfiRuntime returns "bun" or "deno" whenever Bun's FFI or
\* Deno's dlopen is there, and throws exactly when neither is.
C15_DetectFfiRuntime ==
  call.op = "detectFfiRuntime" =>
    /\ (HasBunFFI \/ HasDenoDlopen) => (call.res.ok /\ call.res.v \in {"bun", "deno"})
    /\ ~call.res.ok <=> (~HasBunFFI /\ ~HasDenoDlopen)

\* both globals are there and neither has its native-call member: the call
\* threw
C15_Witness ==
  /\ call.op = "detectFfiRuntime"
  /\ host.Bun.has /\ host.Deno.has
  /\ ~HasBunFFI /\ ~HasDenoDlopen
  /\ ~call.res.ok

ProcessPair ==
  /\ host.process.has
  /\ TruthyString(host.process.v.platform) /\ TruthyString(host.process.v.arch)

BuildPair ==
  /\ host.Deno.has /\ host.Deno.v.build.has
  /\ TruthyString(host.Deno.v.build.v.os) /\ TruthyString(host.Deno.v.build.v.arch)

ReportedPlatform(p) == IF p = "windows" THEN "win32" ELSE p

ReportedArch(a) ==
  CASE a = "x86_64"  -> "x64"
    [] a = "aarch64" -> "arm64"
    [] OTHER         -> a

\* C16: getRuntimePlatformArch returns the pair of process.platform and
\* process.arch when both are there, else that of Deno.build.os and
\* Deno.build.arch when both are there, else throws; "windows" is reported
\* as "win32", "x86_64" as "x64", "aarch64" as "arm64" and every other
\* string unchanged.
C16_PlatformArch ==
  call.op = "getRuntimePlatformArch" =>
    IF ProcessPair
    THEN /\ call.res.ok
         /\ call.res.v.platform = ReportedPlatform(host.process.v.platform.v)
         /\ call.res.v.arch = ReportedArch(host.process.v.arch.v)
    ELSE IF BuildPair
    THEN /\ call.res.ok
         /\ call.res.v.platform = ReportedPlatform(host.Deno.v.build.v.os.v)
         /\ call.res.v.arch = ReportedArch(host.Deno.v.build.v.arch.v)
    ELSE ~call.res.ok

\* no usable process pair: the pair came from Deno.build, renamed
C16_Witness ==
  /\ call.op = "getRuntimePlatformArch"
  /\ host.process.has /\ ~ProcessPair
  /\ BuildPair
  /\ host.Deno.v.build.v.os.v = "windows" /\ host.Deno.v.build.v.arch.v = "aarch64"
  /\ call.res.ok /\ call.res.v = [platform |-> "win32", arch |-> "arm64"]

NoNativeWidth == ~(host.Bun.has /\ host.Bun.v.stringWidth)

IsControl(cp) == cp <= 31 \/ (cp >= 127 /\ cp <= 159)

\* the width the rule gives a code point
RuleWidth(cp) ==
  IF IsControl(cp) \/ cp \in {769, 12330} \/ cp = 65039 THEN 0
  ELSE IF cp \in {169, 128578} \/ cp \in {4352, 20013, 65313, 131072} THEN 2
  ELSE 1

RECURSIVE RuleSum(_)
RuleSum(text) == IF text = <<>> THEN 0 ELSE RuleWidth(Head(text)) + RuleSum(Tail(text))

\* C17: without a native width function stringWidth(text) is the sum over
\* the code points of text of 0 for control characters, combining marks and
\* variation selectors, 2 for pictographic and CJK/full-width code points
\* and 1 for everything else: "e" then U+0301 is 1, U+1F642 is 2, "A" is 1,
\* the empty string is 0.
C17_StringWidth ==
  (call.op = "stringWidth" /\ NoNativeWidth) =>
    /\ call.res = RuleSum(call.arg)
    /\ call.arg = <<101, 769>> => call.res = 1
    /\ call.arg = <<128578>> => call.res = 2
    /\ call.arg = <<65>> => call.res = 1
    /\ call.arg = <<>> => call.res = 0

\* "e" followed by the combining acute accent was measured by the fallback
C17_Witness ==
  /\ call.op = "stringWidth" /\ NoNativeWidth
  /\ call.arg = <<101, 769>>
  /\ call.res = 1

\* the text without its zero-width joiners and combining marks
RECURSIVE WithoutJoiners(_)
WithoutJoiners(text) ==
  IF text = <<>> THEN <<>>
  ELSE IF Head(text) = 8205 \/ IsMark(Head(text)) THEN WithoutJoiners(Tail(text))
  ELSE <<Head(text)>> \o WithoutJoiners(Tail(text))

\* C18: a zero-width joiner (U+200D) or combining mark inside a sequence
\* contributes 0 columns: the width of a text is the width of the text
\* without its joiners and marks.
C18_JoinersAreZeroWidth ==
  (call.op = "stringWidth" /\ NoNativeWidth) =>
    call.res = sumCharWidths(WithoutJoiners(call.arg))

\* the types a normalized entry hands to the host: Bun's entry has args and
\* returns, Deno's has parameters and result
OutputTypes(entry)  == IF runtime = "bun" THEN entry.args ELSE entry.parameters
OutputReturn(entry) == IF runtime = "bun" THEN entry.returns ELSE entry.result

WithoutAlias(type) == IF type = "ptr" THEN "pointer" ELSE type

\* C19: in the output of normalizeSymbolsForRuntime, for either runtime
\* tag, no parameter or return type is "ptr": each "ptr" of the input
\* appears as "pointer" and every other type tag is unchanged.
C19_PtrAlias ==
  \A form \in {"legacy", "canonical"} :
    normalized[form].has =>
      \A name \in DOMAIN logicalSymbols :
        LET declared == IF logicalSymbols[name].types.has
                        THEN logicalSymbols[name].types.v ELSE <<>>
            returns  == IF logicalSymbols[name].ret.has
                        THEN logicalSymbols[name].ret.v ELSE "void"
            entry    == normalized[form].v[name]
        IN /\ Len(OutputTypes(entry)) = Len(declared)
           /\ \A i \in DOMAIN declared : OutputTypes(entry)[i] = WithoutAlias(declared[i])
           /\ OutputReturn(entry) = WithoutAlias(returns)

IsPayloadKind(entry) == entry.kind \in {"char_ptr", "array"}

\* C20: in every struct defineStruct returns, each lengthOf relation links
\* a string or array field with a primitive or enum length field of the
\* same struct: the named field is in the field list, and of the two fields
\* one is the payload and the other the primitive or enum length holder.
C20_LengthOfWellFormed ==
  spc # "start" =>
    \A i \in 1..Len(layout) :
      layout[i].lengthOf # NoField =>
        /\ byNameHas(layout, layout[i].lengthOf)
        /\ IsPayloadKind(layout[i]) # IsPayloadKind(byNameGet(layout, layout[i].lengthOf))

(***************************************************************************)
(* Claims about lists, scalars, layout and pack order                      *)
(***************************************************************************)
\* bytes [(e - 1) * size, e * size) of the list buffer
ListSlice(e) == SubSeq(buffer, (e - 1) * size + 1, e * size)

\* unpack(pack(value)) of one value on its own
UnpackOfPack(value) ==
  LET p == pack(layout, size, value, pointerSize)
  IN unpack(p.buf, layout, p.allocated, 0, pointerSize).out

\* C21: packList(values) has size * |values| bytes, the e-th stride being
\* the bytes pack produced for the e-th value; unpackList(buffer, count)
\* returns count values, the e-th being unpack of the e-th stride, so that
\* for the packed list it is unpack(pack(values[e])).
C21_ListStride ==
  /\ spc \in {"listPacked", "listUnpacked"} =>
       /\ Len(buffer) = size * Len(input)
       /\ \A e \in 1..Len(input) :
            \E made \in 0..(2 * Len(layout) * Len(input)) :
              ListSlice(e) = packFrom(layout, size, input[e], pointerSize, made).buf
  /\ spc = "listUnpacked" =>
       /\ Len(out) = call.count
       /\ \A e \in 1..Len(out) :
            /\ out[e] = unpack(ListSlice(e), layout, heap, 0, pointerSize).out
            /\ out[e] = UnpackOfPack(input[e])

\* a list of two values with a string or a non-empty array was packed and
\* both were unpacked
C21_Witness ==
  /\ spc = "listUnpacked"
  /\ Len(input) = 2 /\ call.count = 2
  /\ input[1] # input[2]
  /\ \E i \in PayloadFields : StoredPointer(size, layout[i]) # 0

\* byte k of the integer v: (v div 256^k) mod 256
RECURSIVE ByteOf(_, _)
ByteOf(v, k) == IF k = 0 THEN v % 256 ELSE ByteOf(v \div 256, k - 1)

\* byte k of what the caller gave for a scalar field
GivenByte(type, value, k) ==
  CASE value.t = "bigint64" -> value.bytes[k + 1]
    [] type = "bool_u32"    -> ByteOf(IF Truthy(value) THEN 1 ELSE 0, k)
    [] OTHER                -> ByteOf(ToInteger(value), k)

ScalarFields ==
  {i \in 1..Len(layout) : layout[i].kind = "primitive" /\ layout[i].type \in MultiByteScalars}

\* C22: pack writes and unpack reads every multi-byte scalar little-endian:
\* byte o + k of the buffer holds (v div 256^k) mod 256 of the integer v
\* given for the field at offset o; a u64 field or u64 array element is an
\* exact integer on both paths, so v unpacks to exactly v, above 2^53 too.
C22_LittleEndian ==
  /\ spc \in {"packed", "unpacked"} =>
       \A i \in ScalarFields : \A k \in 0..(layout[i].size - 1) :
         buffer[layout[i].offset + k + 1]
           = GivenByte(layout[i].type, input[layout[i].name], k)
  /\ spc = "unpacked" =>
       \A i \in 1..Len(layout) :
         LET given == input[layout[i].name]
             got   == outGet(out, layout[i].name)
         IN /\ (layout[i].kind = "primitive" /\ layout[i].type = "u64") =>
                 IF given.t = "bigint64" THEN got = given
                 ELSE got = Big(given.n)
            /\ (layout[i].kind = "primitive" /\ layout[i].type \in {"u16", "i16", "u32", "i32"})
                 => got = given
            /\ (layout[i].kind = "array" /\ byNameHas(layout, "bigCount"))
                 => got = given

\* 2^64 - 1 was packed into a u64 field and unpacked
C22_Witness ==
  /\ spc = "unpacked"
  /\ byNameHas(layout, "u64")
  /\ input["u64"] = Big64(<<255, 255, 255, 255, 255, 255, 255, 255>>)
  /\ outGet(out, "u64") = input["u64"]

\* C23: whenever getRuntimePlatformArch() reports arch "x64" or "arm64",
\* the pointer width of the loaded struct module is 8: pointer, string and
\* array fields take 8 bytes and the struct size is a multiple of 8.
C23_PointerWidth ==
  (/\ call # NoCall /\ call.op = "getRuntimePlatformArch" /\ call.res.ok
   /\ call.res.v.arch \in {"x64", "arm64"})
    => /\ pointerSize = 8
       /\ spc = "defined" =>
            /\ size % 8 = 0
            /\ \A i \in 1..Len(layout) :
                 (layout[i].kind # "primitive" \/ layout[i].type = "pointer")
                   => layout[i].size = 8

\* the handle the constructor created for a JSCallback
HandleOf(object) == IF object.bunHandle.has THEN object.bunHandle.v ELSE object.denoHandle.v

SmallestMultiple(align, from) == CHOOSE m \in from..(from + align - 1) : m % align = 0

\* the size the rule gives a field: one pointer-width slot for a string or
\* an array, the size of the scalar type otherwise
RuleSize(f, ps) ==
  IF f.form \in {"char*", "array"} THEN ps
  ELSE CASE f.type \in {"u8", "bool_u8"} -> 1
         [] f.type \in {"u16", "i16"} -> 2
         [] f.type \in {"u32", "i32", "bool_u32", "f32"} -> 4
         [] f.type \in {"u64", "f64"} -> 8
         [] f.type = "pointer" -> ps

\* C25: the layout defineStruct builds is the declaration-order placement:
\* field i has the size of its type (pointer width for strings and arrays)
\* and the smallest offset that is a multiple of min(size, pointerWidth)
\* and >= the end of field i - 1 (0 for the first); the struct size is the
\* end of the last field rounded up to pointer width. So fields do not
\* overlap and offsets increase with declaration order, and the layout is
\* a function of the field list and the pointer width.
C25_PlacementRule ==
  spc = "defined" =>
    /\ Len(layout) = Len(fields)
    /\ \A i \in 1..Len(layout) :
         LET prevEnd == IF i = 1 THEN 0 ELSE layout[i - 1].offset + layout[i - 1].size IN
         /\ layout[i].name = fields[i].name
         /\ layout[i].size = RuleSize(fields[i], pointerSize)
         /\ layout[i].offset = SmallestMultiple(Min(layout[i].size, pointerSize), prevEnd)
    /\ size = SmallestMultiple(pointerSize, endOffset(layout))
    /\ \A i, j \in 1..Len(layout) :
         i < j => layout[i].offset + layout[i].size <= layout[j].offset
    /\ \A i, j \in 1..Len(layout) : i < j => layout[i].offset < layout[j].offset

\* three fields of which an array follows a one-byte field and a u64
\* follows the array
C25_Witness ==
  /\ spc = "defined"
  /\ Len(layout) = 3
  /\ layout[1].size = 1
  /\ layout[2].kind = "array" /\ layout[2].offset = pointerSize
  /\ layout[3].type = "u64" /\ layout[3].kind = "primitive"

\* the field-keyed mapping the caller's value stands for: the value itself,
\* or what the configured reduceValue makes of it
ReducedInput == IF options.reduceValue = NoField THEN input ELSE input["inner"]

\* entry, then default exactly when the entry is absent, then packTransform
ResolvedValue(entry) ==
  LET given    == IF entry.name \in DOMAIN ReducedInput THEN ReducedInput[entry.name] ELSE Undef
      present  == IF given = Undef /\ entry.defaultValue # Undef
                  THEN entry.defaultValue ELSE given
  IN IF entry.packTransform = NoField THEN present
     ELSE applyTransform(entry.packTransform, present)

\* the bytes of the field in the packed buffer
FieldBytes(entry) == SubSeq(buffer, entry.offset + 1, entry.offset + entry.size)

\* the text a char* field holds: the retained payload its pointer names
PackedText(entry) ==
  payloadAt(heap, FromLittleEndian(FieldBytes(entry)))

NamesItsLength(j, i) ==
  /\ layout[j].kind \in {"char_ptr", "array"}
  /\ layout[j].lengthOf = layout[i].name
  /\ layout[i].kind = "primitive"

\* C27: when a string or array field declares lengthOf naming its length
\* field, the packed length field holds the byte or element count of the
\* payload pack wrote, whether the length field is declared before or after
\* the payload field, and unpack of the buffer returns the payload given.
C27_LengthOnPayload ==
  \A i, j \in 1..Len(layout) :
    NamesItsLength(j, i) =>
      /\ spc \in {"packed", "unpacked"} =>
           ToInteger(readPrimitive(buffer, layout[i].type, layout[i].offset, pointerSize))
             = WrittenCount(layout[j])
      /\ (spc = "unpacked" /\ GivenValue(layout[j]).t # "undefined") =>
           SameLogicalValue(layout[j], GivenValue(layout[j]), outGet(out, layout[j].name))

\* the integer pack is to store in an unsigned field: the derived length
\* of the text it measures, else the caller's value
IntegerToStore(entry) ==
  IF entry.lengthOf # NoField /\ inputGet(input, entry.lengthOf).t = "string"
  THEN Len(encode(inputGet(input, entry.lengthOf).s))
  ELSE ToInteger(inputGet(input, entry.name))

\* C28: pack never fails on an integer beyond the range of an unsigned
\* field of w bytes; the field holds v mod 2^(8w): byte k of the field is
\* (v div 256^k) mod 256, so a derived length is stored exactly only when
\* it is below 2^(8w), and a u8 length field of the 300-byte text holds 44
\* (of the LongTextLen-byte text: LongTextLen mod 256).
C28_LowBits ==
  /\ spc # "packThrew"
  /\ spc = "packed" =>
       \A i \in 1..Len(layout) :
         (layout[i].kind = "primitive" /\ layout[i].type \in {"u8", "u16", "u32"}) =>
           LET v == IntegerToStore(layout[i])
               stored == FieldBytes(layout[i])
           IN /\ \A k \in 0..(layout[i].size - 1) : stored[k + 1] = ByteOf(v, k)
              /\ layout[i].type = "u8"  => FromLittleEndian(stored) = v % 256
              /\ layout[i].type = "u16" => FromLittleEndian(stored) = v % 65536
              /\ (layout[i].name = "textLen" /\ layout[i].type = "u8"
                    /\ inputGet(input, "text") = Str(LongText))
                   => /\ FromLittleEndian(stored) = LongTextLen % 256
                      /\ LongTextLen = 300 => FromLittleEndian(stored) = 44

\* the 300-byte text was packed next to its u8 length field
C28_Witness ==
  /\ spc = "packed"
  /\ byNameHas(layout, "textLen") /\ byNameHas(layout, "text")
  /\ byNameGet(layout, "textLen").type = "u8"
  /\ input["text"] = Str(LongText)
  /\ FieldBytes(byNameGet(layout, "textLen")) = <<LongTextLen % 256>>

(***************************************************************************)
(* Claims about the test shim                                              *)
(***************************************************************************)
\* the positions of the log at which a hook of the kind ran for the suite
RanAt(kind, suite) ==
  {p \in 1..Len(hookLog) : hookLog[p].kind = kind /\ hookLog[p].suite = suite}

\* the test is registered under the suite or one of its nested suites
Under(suite, test) == suite \in SeqToSet(getSuiteChain(denoTests[test].suite))

\* Deno has gone through all registered tests
RunDone == runner.phase = "run" /\ runner.next > Len(denoTests)

\* C29: the afterAll hooks of a suite run at most once, after the
\* beforeEach hooks, callback and afterEach hooks of every executed test
\* under the suite and never before a test under the suite that is still
\* to run; and once the run is over they have run exactly once for every
\* suite whose beforeAll hooks ran, also when registered tests were never
\* executed.
C29_AfterAll ==
  \A suite \in SuiteNames :
    /\ Cardinality(RanAt("afterAll", suite)) <= 1
    /\ \A p \in RanAt("afterAll", suite) :
         /\ \A q \in 1..Len(hookLog) :
              (hookLog[q].kind \in {"beforeEach", "callback", "afterEach"}
                 /\ Under(suite, hookLog[q].test)) => q < p
         /\ \A t \in 1..Len(denoTests) :
              (t > hookLog[p].test /\ Under(suite, t)) => ~DenoRuns(denoTests, t)
    /\ (RunDone /\ \E q \in RanAt("beforeAll", suite) : ~hookLog[q].threw)
         => Cardinality(RanAt("afterAll", suite)) = 1

\* C30: a test callback runs only after the beforeAll hook of every
\* enclosing suite ran exactly once and completed, outermost suite first,
\* and after the beforeEach hooks of the test completed; so no callback
\* runs that depends on a beforeAll or beforeEach hook that threw, in the
\* test of the throw or in a later one; afterEach hooks run only for a test
\* whose beforeEach hooks completed.
C30_BeforeAll ==
  \A p \in 1..Len(hookLog) :
    LET test  == hookLog[p].test
        chain == getSuiteChain(denoTests[test].suite)
        BeforeEachCompleted ==
          \A k \in 1..Len(chain) :
            \E q \in RanAt("beforeEach", chain[k]) :
              q < p /\ hookLog[q].test = test /\ ~hookLog[q].threw
    IN /\ hookLog[p].kind = "callback" =>
            /\ \A k \in 1..Len(chain) :
                 /\ Cardinality(RanAt("beforeAll", chain[k])) = 1
                 /\ \A q \in RanAt("beforeAll", chain[k]) :
                      /\ q < p /\ ~hookLog[q].threw
                      /\ \A j \in 1..(k - 1) : \A r \in RanAt("beforeAll", chain[j]) : r < q
            /\ BeforeEachCompleted
       /\ hookLog[p].kind = "afterEach" => BeforeEachCompleted

====
